---- MODULE Spec2Model ----
(***************************************************************************)
(* A model of the rust_lox tree-walking interpreter: the Resolver (static  *)
(* scope analysis), the Environment chain with its weak parent links, the  *)
(* callables (LoxFunction, LoxClass, LoxInstance) and the Interpreter's    *)
(* visitors.  One program (an AST) is drawn in Init; the Resolver runs as  *)
(* one action and the Interpreter as a machine whose stack of frames is    *)
(* the Rust call stack of the visitor methods.                             *)
(***************************************************************************)
EXTENDS Integers, Sequences, FiniteSets, TLC

VARIABLES
    prog,         \* the program: its name and its statement list (main.rs `stmts`)
    ctl,          \* where the run is: what is being executed/evaluated or a result
    stack,        \* the frames of the visitor calls in progress (innermost last)
    environment,  \* Interpreter::environment (an index into envs)
    envs,         \* every Environment ever allocated, by index
    insts,        \* every LoxInstance ever allocated (Rc<RefCell<LoxInstance>>)
    locals,       \* Interpreter::locals, the Resolver's side table
    out           \* the values printed so far (stdout)

vars == <<prog, ctl, stack, environment, envs, insts, locals, out>>

-----------------------------------------------------------------------------
(* Bounds of the model.                                                    *)

\* how many times the first counter of the makeCounter program is called
MaxCalls == 3
\* how many constructs are nested around a `return` in the generated programs
MaxNest == 2

-----------------------------------------------------------------------------
(* AST nodes (ast/mod.rs).  A token is modelled by its lexeme; the `id` of *)
(* Variable, Assign, This and Super stands for the token's span, which is  *)
(* what makes two uses at different places different keys of `locals`.     *)

None == [k |-> "None"]

ExprLiteral(value) == [k |-> "Literal", value |-> value]
ExprGrouping(value) == [k |-> "Grouping", value |-> value]
ExprLogical(left, operator, right) ==
    [k |-> "Logical", left |-> left, operator |-> operator, right |-> right]
ExprSet(object, name, value) == [k |-> "Set", object |-> object, name |-> name, value |-> value]
ExprSuper(id, method) == [k |-> "Super", id |-> id, method |-> method]
ExprThis(id) == [k |-> "This", id |-> id]
ExprUnary(operator, value) == [k |-> "Unary", operator |-> operator, value |-> value]
ExprBinary(left, operator, right) ==
    [k |-> "Binary", left |-> left, operator |-> operator, right |-> right]
ExprCall(callee, arguments) == [k |-> "Call", callee |-> callee, arguments |-> arguments]
ExprGet(object, name) == [k |-> "Get", object |-> object, name |-> name]
ExprAssign(id, name, value) == [k |-> "Assign", id |-> id, name |-> name, value |-> value]
ExprVariable(id, name) == [k |-> "Variable", id |-> id, name |-> name]

StmtBlock(statements) == [k |-> "Block", statements |-> statements]
StmtClass(name, superclass, methods) ==
    [k |-> "Class", name |-> name, superclass |-> superclass, methods |-> methods]
StmtExpression(expr) == [k |-> "Expression", expr |-> expr]
StmtFunction(name, params, body) ==
    [k |-> "Function", name |-> name, params |-> params, body |-> body]
StmtIf(condition, then_branch, else_branch) ==
    [k |-> "If", condition |-> condition, then_branch |-> then_branch,
     else_branch |-> else_branch]
StmtPrint(expr) == [k |-> "Print", expr |-> expr]
StmtReturn(value) == [k |-> "Return", value |-> value]
StmtVar(name, initializer) == [k |-> "Var", name |-> name, initializer |-> initializer]
StmtWhile(condition, body) == [k |-> "While", condition |-> condition, body |-> body]

-----------------------------------------------------------------------------
(* Runtime values (interpreter/value.rs, callable.rs, class.rs).           *)

\* ast::LiteralValue
LitString(s) == [l |-> "String", v |-> s]
LitF64(n) == [l |-> "F64", v |-> n]
LitBool(b) == [l |-> "Bool", v |-> b]
LitNil == [l |-> "Nil"]

Nil == [t |-> "nil"]
Number(n) == [t |-> "num", v |-> n]
String(s) == [t |-> "str", v |-> s]
Boolean(b) == [t |-> "bool", v |-> b]
\* Value::Instance holds an Rc: the instance is named by its index in insts
Instance(ref) == [t |-> "inst", ref |-> ref]
\* the native function installed in globals
Clock == [t |-> "native", name |-> "clock"]
\* Option::None in Environment::values: declared, no value yet
Uninit == [t |-> "uninit"]

\* LoxFunction::new; closure is a Weak: an index that may name a dropped environment
LoxFunction(declaration, closure, is_initializer) ==
    [t |-> "fun", declaration |-> declaration, closure |-> closure,
     is_initializer |-> is_initializer]

\* LoxClass::new; superclass is None or a class value, methods maps names to LoxFunctions
LoxClass(name, superclass, methods) ==
    [t |-> "class", name |-> name, superclass |-> superclass, methods |-> methods]

\* LoxInstance::new
LoxInstance(class) == [class |-> class, fields |-> <<>>]

\* impl From<LiteralValue> for Value
Value_from(literal) ==
    CASE literal.l = "F64" -> Number(literal.v)
      [] literal.l = "String" -> String(literal.v)
      [] literal.l = "Bool" -> Boolean(literal.v)
      [] literal.l = "Nil" -> Nil

IsCallable(v) == v.t \in {"fun", "class", "native"}

\* Value::is_truthy
is_truthy(v) ==
    CASE v.t = "bool" -> v.v
      [] v.t = "nil" -> FALSE
      [] OTHER -> TRUE

\* a map with one more (or one replaced) entry: HashMap::insert
Put(map, key, val) ==
    [x \in (DOMAIN map) \cup {key} |-> IF x = key THEN val ELSE map[x]]

-----------------------------------------------------------------------------
(* Errors and results.                                                     *)

NoError == [kind |-> "none"]
Err(kind, token) == [kind |-> kind, token |-> token]
\* RuntimeError::Return, the unwinding signal
ReturnSignal(value) == [kind |-> "Return", value |-> value]

\* the kinds that are internal errors (error.rs 31-35)
InternalErrorKinds == {"EnvironmentCreationError", "CallableError"}

ROk(v) == [st |-> "ok", v |-> v, err |-> NoError]
RErr(e) == [st |-> "err", v |-> Nil, err |-> e]
RPanic(msg) == [st |-> "panic", v |-> Nil, err |-> [kind |-> "panic", token |-> msg]]

-----------------------------------------------------------------------------
(* Environment (interpreter/environment.rs).  `es` is the table of all     *)
(* environments and `alive` the set of those some Rc still owns: a Weak    *)
(* upgrades exactly when its target is in `alive`.                         *)

\* enclosing: None
NoEnv == 0

\* Environment::new
Environment_new(enclosing) == [values |-> <<>>, enclosing |-> enclosing]

\* Weak::upgrade followed by Rc::downgrade: the link survives only to a live target
Upgrade(alive, e) == IF e \in alive THEN e ELSE NoEnv

\* Environment::define
Environment_define(es, e, name, value) ==
    [es EXCEPT ![e].values = Put(@, name, value)]

RECURSIVE Environment_get(_, _, _, _)
\* Environment::get
Environment_get(es, alive, e, name) ==
    IF name \in DOMAIN es[e].values
    THEN IF es[e].values[name].t = "uninit" THEN ROk(Nil) ELSE ROk(es[e].values[name])
    ELSE IF es[e].enclosing # NoEnv /\ es[e].enclosing \in alive
         THEN Environment_get(es, alive, es[e].enclosing, name)
         ELSE RErr(Err("UndefinedVariable", name))

RECURSIVE ancestor_walk(_, _, _, _)
\* the hops of Environment::ancestor: each one upgrades the `enclosing` link
ancestor_walk(es, alive, e, hops) ==
    IF hops = 0 THEN [st |-> "some", env |-> e]
    ELSE IF es[e].enclosing = NoEnv THEN [st |-> "panic", env |-> NoEnv]
    ELSE IF es[e].enclosing \notin alive THEN [st |-> "panic", env |-> NoEnv]
    ELSE ancestor_walk(es, alive, es[e].enclosing, hops - 1)

\* Environment::ancestor
Environment_ancestor(es, alive, e, distance) ==
    IF distance = 0 THEN [st |-> "none", env |-> e]
    ELSE ancestor_walk(es, alive, e, distance)

\* Environment::get_at
Environment_get_at(es, alive, e, distance, name) ==
    LET env == Environment_ancestor(es, alive, e, distance) IN
    IF env.st = "panic" THEN RPanic("ancestor")
    ELSE IF name \notin DOMAIN es[env.env].values THEN RPanic("not found")
    ELSE IF es[env.env].values[name].t = "uninit" THEN RPanic("is None")
    ELSE ROk(es[env.env].values[name])

\* Environment::assign_at: the result is the new table, or a panic
Environment_assign_at(es, alive, e, distance, name, value) ==
    LET env == Environment_ancestor(es, alive, e, distance) IN
    IF env.st = "panic" THEN [st |-> "panic", es |-> es]
    ELSE [st |-> "ok", es |-> Environment_define(es, env.env, name, value)]

RECURSIVE Environment_assign(_, _, _, _, _)
\* Environment::assign as an implicit declaration: a name that nothing on the
\* chain binds is defined in the last environment of the chain
Environment_assign_defining(es, alive, e, name, value) ==
    IF name \in DOMAIN es[e].values
    THEN [st |-> "ok", es |-> [es EXCEPT ![e].values[name] = value]]
    ELSE IF es[e].enclosing # NoEnv /\ es[e].enclosing \in alive
         THEN Environment_assign(es, alive, es[e].enclosing, name, value)
         ELSE [st |-> "ok", es |-> Environment_define(es, e, name, value)]

\* Environment::assign
Environment_assign(es, alive, e, name, value) ==
    IF name \in DOMAIN es[e].values
    THEN [st |-> "ok", es |-> [es EXCEPT ![e].values[name] = value]]
    ELSE IF es[e].enclosing # NoEnv /\ es[e].enclosing \in alive
         THEN Environment_assign(es, alive, es[e].enclosing, name, value)
         ELSE [st |-> "err", es |-> es]

-----------------------------------------------------------------------------
(* Resolver (interpreter/resolver.rs).  `r` is the Resolver: its scopes    *)
(* (innermost last), its locals, current_function, current_class, and the  *)
(* first error, after which every visitor returns at once (the `?`s).      *)

\* Resolver::new
Resolver_new ==
    [scopes |-> <<>>, locals |-> <<>>, current_function |-> "None",
     current_class |-> "None", err |-> NoError]

Failed(r) == r.err.kind # "none"
Fail(r, kind, token) == [r EXCEPT !.err = Err(kind, token)]

\* Resolver::begin_scope
begin_scope(r) == [r EXCEPT !.scopes = Append(@, <<>>)]

\* Resolver::end_scope
end_scope(r) == [r EXCEPT !.scopes = SubSeq(@, 1, Len(@) - 1)]

\* scopes.last_mut().unwrap().insert(name, flag)
scope_insert(r, name, flag) ==
    [r EXCEPT !.scopes[Len(r.scopes)] = Put(@, name, flag)]

\* declare without the contains_key check: a second declaration overwrites the
\* first
declare_unchecked(r, name) ==
    IF r.scopes = <<>> THEN r ELSE scope_insert(r, name, FALSE)

\* Resolver::declare
declare(r, name) ==
    IF r.scopes = <<>> THEN r
    ELSE IF name \in DOMAIN r.scopes[Len(r.scopes)]
         THEN Fail(r, "SameNameVariableInLocalScope", name)
         ELSE scope_insert(r, name, FALSE)

\* Resolver::define
define(r, name) ==
    IF r.scopes = <<>> THEN r ELSE scope_insert(r, name, TRUE)

\* Resolver::resolve_local
resolve_local(r, id, name) ==
    LET hits == {i \in 1..Len(r.scopes) : name \in DOMAIN r.scopes[i]} IN
    IF hits = {} THEN r
    ELSE LET i == CHOOSE h \in hits : \A g \in hits : g <= h IN
         [r EXCEPT !.locals = Put(@, id, Len(r.scopes) - i)]

RECURSIVE resolve_params(_, _)
\* the params loop of Resolver::resolve_function: declare and define each one
resolve_params(r, params) ==
    IF params = <<>> \/ Failed(r) THEN r
    ELSE LET r1 == declare(r, Head(params)) IN
         IF Failed(r1) THEN r1
         ELSE resolve_params(define(r1, Head(params)), Tail(params))

\* Resolver::visit_super
Resolver_visit_super(r, node) ==
    IF r.current_class = "None" THEN Fail(r, "SuperOutsideClass", "super")
    ELSE IF r.current_class # "Subclass"
         THEN Fail(r, "SuperInClassWithoutSuperclass", "super")
         ELSE resolve_local(r, node.id, "super")

\* Resolver::visit_this
Resolver_visit_this(r, node) ==
    IF r.current_class = "None" THEN Fail(r, "ThisOutsideClass", "this")
    ELSE resolve_local(r, node.id, "this")

\* visit_variable without the declared-but-undefined check
Resolver_visit_variable_unchecked(r, node) ==
    resolve_local(r, node.id, node.name)

\* Resolver::visit_variable
Resolver_visit_variable(r, node) ==
    IF /\ r.scopes # <<>>
       /\ node.name \in DOMAIN r.scopes[Len(r.scopes)]
       /\ ~r.scopes[Len(r.scopes)][node.name]
    THEN Fail(r, "VariableInOwnInitializer", node.name)
    ELSE resolve_local(r, node.id, node.name)

RECURSIVE resolve_stmt(_, _), resolve_stmts(_, _), resolve_expr(_, _),
          resolve_exprs(_, _), resolve_function(_, _, _), resolve_methods(_, _),
          Resolver_visit_class(_, _), Resolver_visit_return(_, _)

\* resolve_function without `self.current_function = enclosing_function`: the
\* function type of a resolved declaration stays the ambient one
resolve_function_unrestored(r, function, fn_type) ==
    LET r1 == begin_scope([r EXCEPT !.current_function = fn_type])
        r2 == resolve_params(r1, function.params)
        r3 == IF Failed(r2) THEN r2 ELSE resolve_stmts(r2, function.body)
    IN  IF Failed(r3) THEN r3 ELSE end_scope(r3)

\* Resolver::resolve_function
resolve_function(r, function, fn_type) ==
    LET enclosing_function == r.current_function
        r1 == begin_scope([r EXCEPT !.current_function = fn_type])
        r2 == resolve_params(r1, function.params)
        r3 == IF Failed(r2) THEN r2 ELSE resolve_stmts(r2, function.body)
    IN  IF Failed(r3) THEN r3
        ELSE [end_scope(r3) EXCEPT !.current_function = enclosing_function]

\* Resolver::resolve_stmts, Resolver::resolve: try_for_each over the statements
resolve_stmts(r, stmts) ==
    IF stmts = <<>> \/ Failed(r) THEN r
    ELSE resolve_stmts(resolve_stmt(r, Head(stmts)), Tail(stmts))

\* try_for_each over the arguments of a call
resolve_exprs(r, exprs) ==
    IF exprs = <<>> \/ Failed(r) THEN r
    ELSE resolve_exprs(resolve_expr(r, Head(exprs)), Tail(exprs))

\* Resolver as ExprVisitor: visit_literal ... visit_variable
resolve_expr(r, node) ==
    CASE node.k = "Literal" -> r
      [] node.k = "Grouping" -> resolve_expr(r, node.value)
      [] node.k \in {"Logical", "Binary"} ->
            LET r1 == resolve_expr(r, node.left) IN
            IF Failed(r1) THEN r1 ELSE resolve_expr(r1, node.right)
      [] node.k = "Set" ->
            LET r1 == resolve_expr(r, node.value) IN
            IF Failed(r1) THEN r1 ELSE resolve_expr(r1, node.object)
      [] node.k = "Super" -> Resolver_visit_super(r, node)
      [] node.k = "This" -> Resolver_visit_this(r, node)
      [] node.k = "Unary" -> resolve_expr(r, node.value)
      [] node.k = "Call" ->
            LET r1 == resolve_expr(r, node.callee) IN
            IF Failed(r1) THEN r1 ELSE resolve_exprs(r1, node.arguments)
      [] node.k = "Get" -> resolve_expr(r, node.object)
      [] node.k = "Assign" ->
            LET r1 == resolve_expr(r, node.value) IN
            IF Failed(r1) THEN r1 ELSE resolve_local(r1, node.id, node.name)
      [] node.k = "Variable" -> Resolver_visit_variable(r, node)

\* Resolver::visit_return
Resolver_visit_return(r, node) ==
    IF r.current_function = "None" THEN Fail(r, "TopLevelReturn", "return")
    ELSE IF node.value.k = "None" THEN r
    ELSE IF r.current_function = "Initializer"
         THEN Fail(r, "ReturnInConstructor", "return")
         ELSE resolve_expr(r, node.value)

\* visit_class without `self.current_class = enclosing_class`: the class type of
\* a resolved class stays the ambient one
Resolver_visit_class_unrestored(r, node) ==
    LET has_super == node.superclass.k # "None"
        r1 == declare([r EXCEPT !.current_class = "Class"], node.name)
        r2 == IF Failed(r1) THEN r1 ELSE define(r1, node.name)
        r3 == IF Failed(r2) \/ ~has_super THEN r2
              ELSE IF node.superclass.name = node.name
                   THEN Fail(r2, "InheritanceCycle", node.superclass.name)
                   ELSE resolve_expr(r2, node.superclass)
        r4 == IF Failed(r3) \/ ~has_super THEN r3
              ELSE scope_insert(begin_scope([r3 EXCEPT !.current_class = "Subclass"]),
                                "super", TRUE)
        r5 == IF Failed(r4) THEN r4
              ELSE resolve_methods(scope_insert(begin_scope(r4), "this", TRUE),
                                   node.methods)
    IN  IF Failed(r5) THEN r5
        ELSE IF has_super THEN end_scope(end_scope(r5)) ELSE end_scope(r5)

\* Resolver::visit_class
Resolver_visit_class(r, node) ==
    LET enclosing_class == r.current_class
        has_super == node.superclass.k # "None"
        r1 == declare([r EXCEPT !.current_class = "Class"], node.name)
        r2 == IF Failed(r1) THEN r1 ELSE define(r1, node.name)
        r3 == IF Failed(r2) \/ ~has_super THEN r2
              ELSE IF node.superclass.name = node.name
                   THEN Fail(r2, "InheritanceCycle", node.superclass.name)
                   ELSE resolve_expr(r2, node.superclass)
        r4 == IF Failed(r3) \/ ~has_super THEN r3
              ELSE scope_insert(begin_scope([r3 EXCEPT !.current_class = "Subclass"]),
                                "super", TRUE)
        r5 == IF Failed(r4) THEN r4
              ELSE resolve_methods(scope_insert(begin_scope(r4), "this", TRUE),
                                   node.methods)
    IN  IF Failed(r5) THEN r5
        ELSE [(IF has_super THEN end_scope(end_scope(r5)) ELSE end_scope(r5))
                EXCEPT !.current_class = enclosing_class]

\* the methods loop of Resolver::visit_class
resolve_methods(r, methods) ==
    IF methods = <<>> \/ Failed(r) THEN r
    ELSE resolve_methods(
            resolve_function(r, Head(methods),
                IF Head(methods).name = "init" THEN "Initializer" ELSE "Method"),
            Tail(methods))

\* Resolver as StmtVisitor: visit_block ... visit_while
resolve_stmt(r, node) ==
    CASE node.k = "Block" ->
            LET r1 == resolve_stmts(begin_scope(r), node.statements) IN
            IF Failed(r1) THEN r1 ELSE end_scope(r1)
      [] node.k = "Class" -> Resolver_visit_class(r, node)
      [] node.k = "Expression" -> resolve_expr(r, node.expr)
      [] node.k = "Function" ->
            LET r1 == declare(r, node.name) IN
            IF Failed(r1) THEN r1
            ELSE resolve_function(define(r1, node.name), node, "Function")
      [] node.k = "If" ->
            LET r1 == resolve_expr(r, node.condition)
                r2 == IF Failed(r1) THEN r1 ELSE resolve_stmt(r1, node.then_branch)
            IN  IF Failed(r2) \/ node.else_branch.k = "None" THEN r2
                ELSE resolve_stmt(r2, node.else_branch)
      [] node.k = "Print" -> resolve_expr(r, node.expr)
      [] node.k = "Return" -> Resolver_visit_return(r, node)
      [] node.k = "Var" ->
            LET r1 == declare(r, node.name)
                r2 == IF Failed(r1) \/ node.initializer.k = "None" THEN r1
                      ELSE resolve_expr(r1, node.initializer)
            IN  IF Failed(r2) THEN r2 ELSE define(r2, node.name)
      [] node.k = "While" ->
            LET r1 == resolve_expr(r, node.condition) IN
            IF Failed(r1) THEN r1 ELSE resolve_stmt(r1, node.body)

\* Resolver::resolve on a fresh Resolver, as main.rs runs it
Resolver_resolve(stmts) == resolve_stmts(Resolver_new, stmts)

-----------------------------------------------------------------------------
(* The Interpreter (interpreter/mod.rs) as a machine.  ctl is what the     *)
(* innermost visitor is about to do or has just returned:                  *)
(*   start        nothing has run yet (main.rs before resolver.resolve)    *)
(*   exec / eval  a statement / an expression is about to be visited       *)
(*   unit         a statement visitor returned Ok(())                      *)
(*   value        an expression visitor returned Ok(v)                     *)
(*   err          a visitor returned Err(e) (RuntimeError::Return included)*)
(*   halt         the process ended: ok, ResolverError, RuntimeError or a  *)
(*                panic                                                    *)
(* stack holds one frame per visitor call that waits for such a result.    *)

Exec(node) == [m |-> "exec", node |-> node]
Eval(node) == [m |-> "eval", node |-> node]
Unit == [m |-> "unit"]
Value(v) == [m |-> "value", v |-> v]
Error(e) == [m |-> "err", err |-> e]
Halt(res, e) == [m |-> "halt", res |-> res, err |-> e]

\* what a call that returned `res` leaves in ctl; a panic ends the process
Returned(res) ==
    CASE res.st = "ok" -> Value(res.v)
      [] res.st = "err" -> Error(res.err)
      [] res.st = "panic" -> Halt("panic", res.err)

\* Interpreter::globals
globals == 1

Top == stack[Len(stack)]
Pop == SubSeq(stack, 1, Len(stack) - 1)
Frame(k, node) == [k |-> k, node |-> node]
TopIs(k) == stack # <<>> /\ Top.k = k

\* The environments some Rc owns: globals, Interpreter::environment, and the
\* `environment` and `prev` that every execute_block in progress holds.  The
\* closure of a function and the enclosing link of an environment are Weak
\* and keep nothing alive.
AliveIn(st, env) ==
    {globals, env} \cup
    UNION {{st[i].env, st[i].prev} : i \in {j \in DOMAIN st : st[j].k = "execute_block"}}

Alive == AliveIn(stack, environment)

\* Interpreter::new
Interpreter_new ==
    [environment |-> globals,
     envs |-> <<Environment_define(<<Environment_new(NoEnv)>>, 1, "clock", Clock)[1]>>]

\* lookup_variable with dynamic scoping: the depth the resolver recorded is
\* ignored and the name is searched from the current environment outwards
lookup_variable_dynamic(id, name) ==
    Environment_get(envs, Alive, environment, name)

\* Interpreter::lookup_variable
lookup_variable(id, name) ==
    IF id \in DOMAIN locals
    THEN Environment_get_at(envs, Alive, environment, locals[id], name)
    ELSE Environment_get(envs, Alive, globals, name)

-----------------------------------------------------------------------------
(* The parser (parser/mod.rs).  The token list is what Scanner::scan_tokens *)
(* returned: it ends with one EOF token.  `p` is TokenStream::position     *)
(* counted from 1.  Every parsing method is an operator from the tokens    *)
(* and the position to a result: Ok with the new position and the node, or *)
(* Err with the position the stream was left at and the ParserError.       *)

\* lex::Token; `id` stands for the span
Token(kind, lexeme, id) == [kind |-> kind, lexeme |-> lexeme, id |-> id]

POk(pos, v) == [st |-> "ok", pos |-> pos, v |-> v]
PErr(pos, e) == [st |-> "err", pos |-> pos, v |-> e]

\* the `?` operator: an Err (or a call that never returns) ends the method,
\* an Ok value goes on into the rest of it
Try(res, rest(_)) == IF res.st = "ok" THEN rest(res) ELSE res

\* TokenStream::peek
TokenStream_peek(ts, p) == ts[p]

\* TokenStream::is_at_end
is_at_end(ts, p) == ts[p].kind = "EOF"

\* TokenStream::previous
TokenStream_previous(ts, p) ==
    IF p = 1 THEN PErr(p, Err("OutOfBounds", None)) ELSE POk(p, ts[p - 1])

\* TokenStream::advance: the position never moves past the last token
TokenStream_advance(ts, p) ==
    TokenStream_previous(ts, IF p < Len(ts) THEN p + 1 ELSE p)

\* TokenStream::check
TokenStream_check(ts, p, kind) ==
    IF is_at_end(ts, p) THEN FALSE ELSE TokenStream_peek(ts, p).kind = kind

\* TokenStream::match_l: v tells whether a token was consumed
match_l(ts, p, kinds) ==
    IF \E kind \in kinds : TokenStream_check(ts, p, kind)
    THEN Try(TokenStream_advance(ts, p), LAMBDA a : POk(a.pos, TRUE))
    ELSE POk(p, FALSE)

\* TokenStream::consume
consume(ts, p, kind, error_context) ==
    IF TokenStream_check(ts, p, kind)
    THEN TokenStream_advance(ts, p)
    ELSE Try(TokenStream_previous(ts, p),
             LAMBDA prev : PErr(p, Err(error_context, prev.v)))

\* the operators of or, and, equality, comparison, term and factor
LevelOperators(level) ==
    CASE level = 1 -> {"Or"}
      [] level = 2 -> {"And"}
      [] level = 3 -> {"BangEqual", "EqualEqual"}
      [] level = 4 -> {"Greater", "GreaterEqual", "Less", "LessEqual"}
      [] level = 5 -> {"Minus", "Plus"}
      [] level = 6 -> {"Slash", "Star"}

RECURSIVE expression(_, _), assignment(_, _), binary_level(_, _, _),
          binary_loop(_, _, _, _), unary(_, _), Parser_call(_, _), call_loop(_, _, _),
          finish_call(_, _, _), arguments_loop(_, _, _), primary(_, _)

\* Parser::primary
primary(ts, p) ==
    Try(TokenStream_advance(ts, p), LAMBDA a :
    CASE a.v.kind = "False" -> POk(a.pos, ExprLiteral(LitBool(FALSE)))
      [] a.v.kind = "True" -> POk(a.pos, ExprLiteral(LitBool(TRUE)))
      [] a.v.kind = "Nil" -> POk(a.pos, ExprLiteral(LitNil))
      [] a.v.kind = "Number" -> POk(a.pos, ExprLiteral(LitF64(a.v.lexeme)))
      [] a.v.kind = "String" -> POk(a.pos, ExprLiteral(LitString(a.v.lexeme)))
      [] a.v.kind = "LeftParen" ->
            Try(expression(ts, a.pos), LAMBDA expr :
            Try(consume(ts, expr.pos, "RightParen", "UnmatchedParanthesis"), LAMBDA c :
            POk(c.pos, ExprGrouping(expr.v))))
      [] a.v.kind = "This" -> POk(a.pos, ExprThis(a.v.id))
      [] a.v.kind = "Ident" -> POk(a.pos, ExprVariable(a.v.id, a.v.lexeme))
      [] OTHER -> PErr(a.pos, Err("UnexpectedToken", a.v)))

\* Parser::finish_call, the `while match_l(Comma)` loop
arguments_loop(ts, p, arguments) ==
    Try(match_l(ts, p, {"Comma"}), LAMBDA m :
    IF ~m.v THEN POk(p, arguments) ELSE
    Try(expression(ts, m.pos), LAMBDA arg :
    arguments_loop(ts, arg.pos, Append(arguments, arg.v))))

\* Parser::finish_call (the 255 argument check only prints a warning)
finish_call(ts, p, callee) ==
    Try(IF TokenStream_check(ts, p, "RightParen") THEN POk(p, <<>>)
        ELSE Try(expression(ts, p), LAMBDA arg : arguments_loop(ts, arg.pos, <<arg.v>>)),
        LAMBDA arguments :
    Try(consume(ts, arguments.pos, "RightParen", "ExpectedRightParenAfterArguments"),
        LAMBDA paren :
    POk(paren.pos, ExprCall(callee, arguments.v))))

\* Parser::call, the loop over `(` and `.`
call_loop(ts, p, expr) ==
    Try(match_l(ts, p, {"LeftParen"}), LAMBDA paren :
    IF paren.v
    THEN Try(finish_call(ts, paren.pos, expr), LAMBDA c : call_loop(ts, c.pos, c.v))
    ELSE
    Try(match_l(ts, p, {"Dot"}), LAMBDA dot :
    IF dot.v
    THEN Try(consume(ts, dot.pos, "Ident", "ExpectedPropertyNameAfterDot"), LAMBDA name :
         call_loop(ts, name.pos, ExprGet(expr, name.v.lexeme)))
    ELSE POk(p, expr)))

\* Parser::call
Parser_call(ts, p) ==
    Try(primary(ts, p), LAMBDA expr : call_loop(ts, expr.pos, expr.v))

\* Parser::unary
unary(ts, p) ==
    Try(match_l(ts, p, {"Bang", "Minus"}), LAMBDA m :
    IF ~m.v THEN Parser_call(ts, p) ELSE
    Try(TokenStream_previous(ts, m.pos), LAMBDA operator :
    Try(unary(ts, m.pos), LAMBDA right :
    POk(right.pos, ExprUnary(operator.v.kind, right.v)))))

\* the `while match_l(operators)` loop of or, and, equality, comparison,
\* term and factor: the operand is the next level, the node a Logical for
\* or/and and a Binary for the others
binary_loop(ts, p, level, expr) ==
    Try(match_l(ts, p, LevelOperators(level)), LAMBDA m :
    IF ~m.v THEN POk(p, expr) ELSE
    Try(TokenStream_previous(ts, m.pos), LAMBDA operator :
    Try(IF level = 6 THEN unary(ts, m.pos) ELSE binary_level(ts, m.pos, level + 1),
        LAMBDA right :
    binary_loop(ts, right.pos, level,
        IF level <= 2 THEN ExprLogical(expr, operator.v.kind, right.v)
        ELSE ExprBinary(expr, operator.v.kind, right.v)))))

\* Parser::or (level 1), and, equality, comparison, term, factor (level 6)
binary_level(ts, p, level) ==
    Try(IF level = 6 THEN unary(ts, p) ELSE binary_level(ts, p, level + 1),
        LAMBDA expr : binary_loop(ts, expr.pos, level, expr.v))

\* Parser::assignment without the Get arm: only a variable is a target
assignment_variables_only(ts, p) ==
    Try(binary_level(ts, p, 1), LAMBDA expr :
    Try(match_l(ts, expr.pos, {"Equal"}), LAMBDA m :
    IF ~m.v THEN expr ELSE
    Try(TokenStream_previous(ts, m.pos), LAMBDA equals :
    Try(assignment(ts, m.pos), LAMBDA value :
    CASE expr.v.k = "Variable" ->
            POk(value.pos, ExprAssign(expr.v.id, expr.v.name, value.v))
      [] OTHER -> PErr(value.pos, Err("InvalidAssignmentTarget", equals.v))))))

\* Parser::assignment
assignment(ts, p) ==
    Try(binary_level(ts, p, 1), LAMBDA expr :
    Try(match_l(ts, expr.pos, {"Equal"}), LAMBDA m :
    IF ~m.v THEN expr ELSE
    Try(TokenStream_previous(ts, m.pos), LAMBDA equals :
    Try(assignment(ts, m.pos), LAMBDA value :
    CASE expr.v.k = "Variable" ->
            POk(value.pos, ExprAssign(expr.v.id, expr.v.name, value.v))
      [] expr.v.k = "Get" ->
            POk(value.pos, ExprSet(expr.v.object, expr.v.name, value.v))
      [] OTHER -> PErr(value.pos, Err("InvalidAssignmentTarget", equals.v))))))

\* Parser::expression
expression(ts, p) == assignment(ts, p)

RECURSIVE declaration(_, _), statement(_, _), block(_, _), block_loop(_, _, _),
          if_statement(_, _), while_statement(_, _), for_statement(_, _),
          Parser_function(_, _, _), class_declaration(_, _), methods_loop(_, _, _),
          parameters_loop(_, _, _), parse_loop(_, _, _)

\* Parser::expression_statement
expression_statement(ts, p) ==
    Try(expression(ts, p), LAMBDA value :
    Try(consume(ts, value.pos, "Semicolon", "ExpectedSemicolon"), LAMBDA c :
    POk(c.pos, StmtExpression(value.v))))

\* Parser::print_statement
print_statement(ts, p) ==
    Try(expression(ts, p), LAMBDA value :
    Try(consume(ts, value.pos, "Semicolon", "ExpectedSemicolon"), LAMBDA c :
    POk(c.pos, StmtPrint(value.v))))

\* Parser::return_statement
return_statement(ts, p) ==
    Try(TokenStream_previous(ts, p), LAMBDA keyword :
    Try(IF TokenStream_check(ts, p, "Semicolon") THEN POk(p, None)
        ELSE expression(ts, p), LAMBDA value :
    Try(consume(ts, value.pos, "Semicolon", "ExpectedSemicolonAfterReturnValue"),
        LAMBDA c :
    POk(c.pos, StmtReturn(value.v)))))

\* Parser::var_declaration
var_declaration(ts, p) ==
    Try(consume(ts, p, "Ident", "InvalidAssignmentTarget"), LAMBDA name :
    Try(match_l(ts, name.pos, {"Equal"}), LAMBDA m :
    Try(IF m.v THEN expression(ts, m.pos) ELSE POk(m.pos, None), LAMBDA initializer :
    Try(consume(ts, initializer.pos, "Semicolon", "ExpectedSemicolon"), LAMBDA c :
    POk(c.pos, StmtVar(name.v.lexeme, initializer.v))))))

\* Parser::while_statement
while_statement(ts, p) ==
    Try(consume(ts, p, "LeftParen", "ExpectedLeftParenAfterWhile"), LAMBDA l :
    Try(expression(ts, l.pos), LAMBDA condition :
    Try(consume(ts, condition.pos, "RightParen", "ExpectedRightParenAfterCondition"),
        LAMBDA r :
    Try(statement(ts, r.pos), LAMBDA body :
    POk(body.pos, StmtWhile(condition.v, body.v))))))

\* Parser::if_statement
if_statement(ts, p) ==
    Try(consume(ts, p, "LeftParen", "ExpectedLeftParenAfterIf"), LAMBDA l :
    Try(expression(ts, l.pos), LAMBDA condition :
    Try(consume(ts, condition.pos, "RightParen", "ExpectedRightParenAfterCondition"),
        LAMBDA r :
    Try(statement(ts, r.pos), LAMBDA then_branch :
    Try(match_l(ts, then_branch.pos, {"Else"}), LAMBDA m :
    Try(IF m.v THEN statement(ts, m.pos) ELSE POk(m.pos, None), LAMBDA else_branch :
    POk(else_branch.pos, StmtIf(condition.v, then_branch.v, else_branch.v))))))))

\* Parser::for_statement, the end: the loop built from the clauses
for_loop(initializer, condition, increment, body) ==
    StmtBlock(<<initializer,
        StmtWhile(IF condition # None THEN condition ELSE ExprLiteral(LitBool(TRUE)),
                  IF increment # None
                  THEN StmtBlock(<<body, StmtExpression(increment)>>)
                  ELSE body)>>)

\* Parser::for_statement: the initializer is a var declaration when the next
\* token is `var` and an expression statement in every other case
for_statement(ts, p) ==
    Try(consume(ts, p, "LeftParen", "ExpectedLeftParenAfterFor"), LAMBDA l :
    Try(match_l(ts, l.pos, {"Var"}), LAMBDA m :
    Try(IF m.v THEN var_declaration(ts, m.pos) ELSE expression_statement(ts, m.pos),
        LAMBDA initializer :
    Try(IF TokenStream_check(ts, initializer.pos, "Semicolon")
        THEN POk(initializer.pos, None)
        ELSE expression(ts, initializer.pos), LAMBDA condition :
    Try(consume(ts, condition.pos, "Semicolon", "ExpectedSemicolonAfterLoopCondition"),
        LAMBDA s :
    Try(IF TokenStream_check(ts, s.pos, "RightParen") THEN POk(s.pos, None)
        ELSE expression(ts, s.pos), LAMBDA increment :
    Try(consume(ts, increment.pos, "RightParen", "ExpectedRightParenAfterForClause"),
        LAMBDA r :
    Try(statement(ts, r.pos), LAMBDA body :
    POk(body.pos, for_loop(initializer.v, condition.v, increment.v, body.v))))))))))

\* Parser::block, the loop up to the closing brace
block_loop(ts, p, statements) ==
    IF ~TokenStream_check(ts, p, "RightBrace") /\ ~is_at_end(ts, p)
    THEN Try(declaration(ts, p), LAMBDA d :
         block_loop(ts, d.pos, Append(statements, d.v)))
    ELSE POk(p, statements)

\* Parser::block
block(ts, p) ==
    Try(block_loop(ts, p, <<>>), LAMBDA statements :
    Try(consume(ts, statements.pos, "RightBrace", "ExpectedRightBrace"), LAMBDA c :
    POk(c.pos, statements.v)))

\* Parser::statement
statement(ts, p) ==
    Try(match_l(ts, p, {"If", "Print", "Return", "LeftBrace", "While", "For"}), LAMBDA m :
    IF ~m.v THEN expression_statement(ts, p) ELSE
    CASE ts[p].kind = "If" -> if_statement(ts, m.pos)
      [] ts[p].kind = "Print" -> print_statement(ts, m.pos)
      [] ts[p].kind = "Return" -> return_statement(ts, m.pos)
      [] ts[p].kind = "LeftBrace" ->
            Try(block(ts, m.pos), LAMBDA b : POk(b.pos, StmtBlock(b.v)))
      [] ts[p].kind = "While" -> while_statement(ts, m.pos)
      [] ts[p].kind = "For" -> for_statement(ts, m.pos))

\* Parser::function, the `while match_l(Comma)` loop over the parameters
parameters_loop(ts, p, parameters) ==
    Try(match_l(ts, p, {"Comma"}), LAMBDA m :
    IF ~m.v THEN POk(p, parameters) ELSE
    Try(consume(ts, m.pos, "Ident", "ExpectedParameterName"), LAMBDA param :
    parameters_loop(ts, param.pos, Append(parameters, param.v.lexeme))))

\* Parser::function (the 255 parameter check only prints a warning)
Parser_function(ts, p, kind) ==
    Try(consume(ts, p, "Ident", kind), LAMBDA name :
    Try(consume(ts, name.pos, "LeftParen", "ExpectedLeftParenAfterFunctionName"),
        LAMBDA l :
    Try(IF TokenStream_check(ts, l.pos, "RightParen") THEN POk(l.pos, <<>>)
        ELSE Try(consume(ts, l.pos, "Ident", "ExpectedParameterName"), LAMBDA param :
                 parameters_loop(ts, param.pos, <<param.v.lexeme>>)),
        LAMBDA parameters :
    Try(consume(ts, parameters.pos, "RightParen", "ExpectedRightParenAfterParameters"),
        LAMBDA r :
    Try(consume(ts, r.pos, "LeftBrace", "ExpectedLeftBraceBeforeFunctionBody"),
        LAMBDA b :
    Try(block(ts, b.pos), LAMBDA body :
    POk(body.pos, StmtFunction(name.v.lexeme, parameters.v, body.v))))))))

\* Parser::class_declaration, the loop over the methods
methods_loop(ts, p, methods) ==
    IF ~TokenStream_check(ts, p, "RightBrace") /\ ~is_at_end(ts, p)
    THEN Try(Parser_function(ts, p, "ExpectedMethod"), LAMBDA fun :
         methods_loop(ts, fun.pos, Append(methods, fun.v)))
    ELSE POk(p, methods)

\* Parser::class_declaration: the name is followed by the `{` of the body;
\* the statement is built from the name and the methods, with no superclass
class_declaration(ts, p) ==
    Try(consume(ts, p, "Ident", "ExpectedClassName"), LAMBDA name :
    Try(consume(ts, name.pos, "LeftBrace", "ExpectedLeftBraceBeforeClassBody"),
        LAMBDA l :
    Try(methods_loop(ts, l.pos, <<>>), LAMBDA methods :
    Try(consume(ts, methods.pos, "RightBrace", "ExpectedRightBraceAfterClassBody"),
        LAMBDA r :
    POk(r.pos, StmtClass(name.v.lexeme, None, methods.v))))))

\* the statement-starting keywords of Parser::synchronize
SyncKeywords == {"Class", "Fun", "Var", "For", "If", "While", "Print", "Return"}

\* Parser::synchronize, the loop: before a statement-starting keyword the
\* match arm does nothing and the loop goes round again with nothing moved
synchronize_loop(ts, p) ==
    IF is_at_end(ts, p) THEN POk(p, "done") ELSE
    Try(TokenStream_previous(ts, p), LAMBDA prev :
    IF prev.v.kind = "Semicolon" THEN POk(p, "done") ELSE
    IF TokenStream_peek(ts, p).kind \in SyncKeywords
    THEN [st |-> "diverges", pos |-> p, v |-> None]
    ELSE Try(TokenStream_advance(ts, p), LAMBDA a : POk(a.pos, "done")))

\* Parser::synchronize
synchronize(ts, p) ==
    Try(TokenStream_advance(ts, p), LAMBDA a : synchronize_loop(ts, a.pos))

\* Parser::try_with_sync: on Err the stream is synchronized and the error of
\* the declaration is returned
try_with_sync(ts, res) ==
    IF res.st # "err" THEN res
    ELSE Try(synchronize(ts, res.pos), LAMBDA s : PErr(s.pos, res.v))

\* Parser::declaration
declaration(ts, p) ==
    Try(match_l(ts, p, {"Var", "Class", "Fun"}), LAMBDA m :
    IF ~m.v THEN statement(ts, p) ELSE
    CASE ts[p].kind = "Var" -> try_with_sync(ts, var_declaration(ts, m.pos))
      [] ts[p].kind = "Class" -> try_with_sync(ts, class_declaration(ts, m.pos))
      [] ts[p].kind = "Fun" ->
            try_with_sync(ts, Parser_function(ts, m.pos, "ExpectedFunctionName")))

\* Parser::parse, the loop: the first Err leaves the loop and the function
parse_loop(ts, p, statements) ==
    IF is_at_end(ts, p) THEN POk(p, statements)
    ELSE Try(declaration(ts, p), LAMBDA d :
         parse_loop(ts, d.pos, Append(statements, d.v)))

\* Parser::new(TokenStream::new(tokens)).parse()
Parser_parse(ts) == parse_loop(ts, 1, <<>>)

-----------------------------------------------------------------------------
(* The scanner (lex/mod.rs).  The source is the sequence of its characters, *)
(* `p` is Scanner::position counted from 1, and the span of a token is the *)
(* position of its first character.                                        *)

\* char::is_ascii_digit
Digits == {"0", "1", "2", "3", "4", "5", "6", "7", "8", "9"}
is_ascii_digit(c) == c \in Digits

\* char::is_alphabetic: the letters (the underscore is none)
Letters ==
    {"a", "b", "c", "d", "e", "f", "g", "h", "i", "j", "k", "l", "m", "n", "o", "p",
     "q", "r", "s", "t", "u", "v", "w", "x", "y", "z",
     "A", "B", "C", "D", "E", "F", "G", "H", "I", "J", "K", "L", "M", "N", "O", "P",
     "Q", "R", "S", "T", "U", "V", "W", "X", "Y", "Z"}
is_alphabetic(c) == c \in Letters

\* char::is_alphanumeric
is_alphanumeric(c) == is_alphabetic(c) \/ c \in Digits

\* Option::None of peek and read_char
NoChar == ""

\* Scanner::peek, Scanner::peek_nth
Scanner_peek(source, p) == IF p <= Len(source) THEN source[p] ELSE NoChar
peek_nth(source, p, nth) == Scanner_peek(source, p + nth)

\* &source[start..position]
RECURSIVE Slice(_, _, _)
Slice(source, start, position) ==
    IF start >= position THEN "" ELSE source[start] \o Slice(source, start + 1, position)

\* Scanner::skip_whitespace, the line comment: read up to and with the newline
RECURSIVE skip_comment(_, _)
skip_comment(source, p) ==
    IF Scanner_peek(source, p) = NoChar THEN p
    ELSE IF source[p] = "\n" THEN p + 1 ELSE skip_comment(source, p + 1)

\* Scanner::skip_whitespace
RECURSIVE skip_whitespace(_, _)
skip_whitespace(source, p) ==
    CASE Scanner_peek(source, p) \in {" ", "\r", "\t", "\n"} -> skip_whitespace(source, p + 1)
      [] Scanner_peek(source, p) = "/" /\ peek_nth(source, p, 1) = "/" ->
            skip_whitespace(source, skip_comment(source, p))
      [] OTHER -> p

\* the position after the digits that start at p
RECURSIVE skip_digits(_, _)
skip_digits(source, p) ==
    IF is_ascii_digit(Scanner_peek(source, p)) THEN skip_digits(source, p + 1) ELSE p

\* str::parse of a run of digits
RECURSIVE ParseDigits(_, _, _)
ParseDigits(source, start, position) ==
    IF start >= position THEN 0
    ELSE 10 * ParseDigits(source, start, position - 1)
         + CHOOSE d \in 0..9 : ToString(d) = source[position - 1]

\* Scanner::number; the value of a literal with a fraction is stood for by
\* its text
Scanner_number(source, start) ==
    LET int_end == skip_digits(source, start)
        end == IF Scanner_peek(source, int_end) = "."
                  /\ is_ascii_digit(peek_nth(source, int_end, 1))
               THEN skip_digits(source, int_end + 1)
               ELSE int_end
    IN POk(end, Token("Number",
                      IF end = int_end THEN ParseDigits(source, start, end)
                      ELSE Slice(source, start, end),
                      start))

\* the position of the closing quote of the string that starts before p, or
\* past the end
RECURSIVE string_end(_, _)
string_end(source, p) ==
    IF Scanner_peek(source, p) \in {NoChar, "\""} THEN p ELSE string_end(source, p + 1)

\* Scanner::string
Scanner_string(source, start) ==
    LET quote == string_end(source, start + 1) IN
    IF Scanner_peek(source, quote) = NoChar
    THEN PErr(quote, Err("NonTerminatedString", Slice(source, start, quote)))
    ELSE POk(quote + 1, Token("String", Slice(source, start + 1, quote), start))

\* the keyword table of Scanner::identifier
Keywords ==
    [and |-> "And", class |-> "Class", else |-> "Else", false |-> "False",
     for |-> "For", fun |-> "Fun", if |-> "If", nil |-> "Nil", or |-> "Or",
     print |-> "Print", return |-> "Return", super |-> "Super", this |-> "This",
     true |-> "True", var |-> "Var", while |-> "While"]

\* the position after the letters, digits and underscores that start at p
RECURSIVE identifier_end(_, _)
identifier_end(source, p) ==
    IF is_alphanumeric(Scanner_peek(source, p)) \/ Scanner_peek(source, p) = "_"
    THEN identifier_end(source, p + 1)
    ELSE p

\* Scanner::identifier
identifier(source, start) ==
    LET end == identifier_end(source, start)
        lexeme == Slice(source, start, end)
    IN POk(end, Token(IF lexeme \in DOMAIN Keywords THEN Keywords[lexeme] ELSE "Ident",
                      lexeme, start))

\* Scanner::make_token for a token of one or two characters
Punctuation(source, start, kind, length) ==
    POk(start + length, Token(kind, Slice(source, start, start + length), start))

\* Scanner::scan_token, after skip_whitespace: the token that starts at `start`
token_at(source, start) ==
    LET c == Scanner_peek(source, start)
        eq == Scanner_peek(source, start + 1) = "="
    IN
    CASE c = NoChar -> POk(start, Token("EOF", "", start))
      [] c = "(" -> Punctuation(source, start, "LeftParen", 1)
      [] c = ")" -> Punctuation(source, start, "RightParen", 1)
      [] c = "{" -> Punctuation(source, start, "LeftBrace", 1)
      [] c = "}" -> Punctuation(source, start, "RightBrace", 1)
      [] c = "," -> Punctuation(source, start, "Comma", 1)
      [] c = "." -> Punctuation(source, start, "Dot", 1)
      [] c = "-" -> Punctuation(source, start, "Minus", 1)
      [] c = "+" -> Punctuation(source, start, "Plus", 1)
      [] c = "*" -> Punctuation(source, start, "Star", 1)
      [] c = ";" -> Punctuation(source, start, "Semicolon", 1)
      [] c = "!" -> IF eq THEN Punctuation(source, start, "BangEqual", 2)
                    ELSE Punctuation(source, start, "Bang", 1)
      [] c = "=" -> IF eq THEN Punctuation(source, start, "EqualEqual", 2)
                    ELSE Punctuation(source, start, "Equal", 1)
      [] c = "<" -> IF eq THEN Punctuation(source, start, "LessEqual", 2)
                    ELSE Punctuation(source, start, "Less", 1)
      [] c = ">" -> IF eq THEN Punctuation(source, start, "GreaterEqual", 2)
                    ELSE Punctuation(source, start, "Greater", 1)
      [] c = "/" -> Punctuation(source, start, "Slash", 1)
      [] c = "\"" -> Scanner_string(source, start)
      [] is_ascii_digit(c) -> Scanner_number(source, start)
      [] is_alphabetic(c) -> identifier(source, start)
      [] OTHER -> PErr(start + 1, Err("UnexpectedToken", c))

\* Scanner::scan_token
scan_token(source, p) == token_at(source, skip_whitespace(source, p))

\* Scanner::scan_tokens: tokens while the position is inside the source, then
\* one more EOF
\* one more EOF, made from the `start` the last token left behind
RECURSIVE scan_loop(_, _, _, _)
scan_loop(source, p, start, tokens) ==
    IF p <= Len(source)
    THEN Try(scan_token(source, p),
             LAMBDA t : scan_loop(source, t.pos, t.v.id, Append(tokens, t.v)))
    ELSE POk(p, Append(tokens, Token("EOF", Slice(source, start, p), start)))

\* Scanner::new(source).scan_tokens()
scan_tokens(source) == scan_loop(source, 1, 1, <<>>)

\* str::trim of main: the source without the white space at its ends
RECURSIVE trim(_)
trim(source) ==
    CASE source = <<>> -> source
      [] Head(source) \in {" ", "\r", "\t", "\n"} -> trim(Tail(source))
      [] source[Len(source)] \in {" ", "\r", "\t", "\n"} ->
            trim(SubSeq(source, 1, Len(source) - 1))
      [] OTHER -> source

-----------------------------------------------------------------------------
(* main.rs: scan, parse, resolve, then interpret.                                       *)

\* main: Scanner::new(contents).scan_tokens() on the trimmed text of the file;
\* an Err is printed and the process exits with 65
Scan ==
    /\ ctl.m = "scan"
    /\ LET res == scan_tokens(trim(prog.source)) IN
       IF res.st = "ok"
       THEN /\ prog' = [prog EXCEPT !.tokens = res.v]
            /\ ctl' = [m |-> "parse"]
       ELSE /\ ctl' = Halt("TokenError", res.v)
            /\ UNCHANGED prog
    /\ UNCHANGED <<stack, environment, envs, insts, locals, out>>

\* main: parser.parse(); an Err is printed and the process exits with 65.  A
\* parse that never returns leaves the process inside Parser::synchronize.
Parse ==
    /\ ctl.m = "parse"
    /\ LET res == Parser_parse(prog.tokens) IN
       CASE res.st = "ok" ->
                /\ prog' = [prog EXCEPT !.stmts = res.v]
                /\ ctl' = [m |-> "start"]
         [] res.st = "err" ->
                /\ ctl' = [m |-> "halt", res |-> "ParserError", err |-> res.v,
                           position |-> res.pos]
                /\ UNCHANGED prog
         [] res.st = "diverges" ->
                /\ ctl' = [m |-> "synchronize"]
                /\ UNCHANGED prog
    /\ UNCHANGED <<stack, environment, envs, insts, locals, out>>

\* main: Resolver::resolve, then Interpreter::new(resolver.get_locals()) and the
\* start of Interpreter::interpret
Resolve ==
    /\ ctl.m = "start"
    /\ LET r == Resolver_resolve(prog.stmts) IN
       IF Failed(r)
       THEN /\ ctl' = Halt("ResolverError", r.err)
            /\ UNCHANGED <<stack, locals>>
       ELSE /\ locals' = r.locals
            /\ stack' = <<[k |-> "interpret", rest |-> prog.stmts]>>
            /\ ctl' = Unit
    /\ UNCHANGED <<prog, environment, envs, insts, out>>

\* Interpreter::interpret: try_for_each over the statements, then main's exit
interpret ==
    /\ TopIs("interpret")
    /\ ctl.m \in {"unit", "err"}
    /\ IF ctl.m = "err"
       THEN ctl' = Halt("RuntimeError", ctl.err) /\ stack' = <<>>
       ELSE IF Top.rest = <<>>
            THEN ctl' = Halt("ok", NoError) /\ stack' = <<>>
            ELSE /\ ctl' = Exec(Head(Top.rest))
                 /\ stack' = [stack EXCEPT ![Len(stack)].rest = Tail(@)]
    /\ UNCHANGED <<prog, environment, envs, insts, locals, out>>

\* Interpreter::execute_block, the loop: the next statement of the block
execute_block_next ==
    /\ TopIs("execute_block")
    /\ ctl.m = "unit"
    /\ Top.rest # <<>>
    /\ ctl' = Exec(Head(Top.rest))
    /\ stack' = [stack EXCEPT ![Len(stack)].rest = Tail(@)]
    /\ UNCHANGED <<prog, environment, envs, insts, locals, out>>

\* execute_block with the `?` on the statement loop: a failed statement leaves
\* the block's environment current
execute_block_exit_unrestored ==
    /\ TopIs("execute_block")
    /\ \/ ctl.m = "err"
       \/ ctl.m = "unit" /\ Top.rest = <<>>
    /\ environment' = IF ctl.m = "err" THEN environment ELSE Top.prev
    /\ stack' = Pop
    /\ UNCHANGED <<prog, ctl, envs, insts, locals, out>>

\* Interpreter::execute_block, the exit: the statements are done or one failed;
\* self.environment = prev, and the result is passed on
execute_block_exit ==
    /\ TopIs("execute_block")
    /\ \/ ctl.m = "err"
       \/ ctl.m = "unit" /\ Top.rest = <<>>
    /\ environment' = Top.prev
    /\ stack' = Pop
    /\ UNCHANGED <<prog, ctl, envs, insts, locals, out>>

\* the frames of visitors that hand an Err of a sub-visit straight on (`?`)
QuestionFrames ==
    {"visit_logical", "visit_set_object", "visit_set_value", "visit_unary",
     "visit_binary_left", "visit_binary_right", "visit_call_callee",
     "visit_call_arguments", "visit_get", "visit_assign", "visit_expression",
     "visit_if", "visit_print", "visit_return", "visit_var", "visit_while"}

\* the `?` operator with a visit_while that ends its loop normally on a Return
\* instead of handing it on
propagate_swallowing ==
    /\ ctl.m = "err"
    /\ stack # <<>>
    /\ Top.k \in QuestionFrames
    /\ stack' = Pop
    /\ ctl' = IF Top.k = "visit_while" /\ ctl.err.kind = "Return" THEN Unit ELSE ctl
    /\ UNCHANGED <<prog, environment, envs, insts, locals, out>>

\* the `?` operator: the visitor on top returns the Err it received
propagate ==
    /\ ctl.m = "err"
    /\ stack # <<>>
    /\ Top.k \in QuestionFrames
    /\ stack' = Pop
    /\ UNCHANGED <<prog, ctl, environment, envs, insts, locals, out>>

-----------------------------------------------------------------------------
(* Interpreter as StmtVisitor.                                             *)

\* Interpreter::visit_block
Interpreter_visit_block ==
    /\ ctl.m = "exec" /\ ctl.node.k = "Block"
    /\ envs' = Append(envs, Environment_new(environment))
    /\ stack' = Append(stack, [k |-> "execute_block", rest |-> ctl.node.statements,
                               env |-> Len(envs) + 1, prev |-> environment])
    /\ environment' = Len(envs) + 1
    /\ ctl' = Unit
    /\ UNCHANGED <<prog, insts, locals, out>>

\* Interpreter::visit_expression
Interpreter_visit_expression ==
    /\ UNCHANGED <<prog, environment, envs, insts, locals, out>>
    /\ \/ /\ ctl.m = "exec" /\ ctl.node.k = "Expression"
          /\ stack' = Append(stack, Frame("visit_expression", ctl.node))
          /\ ctl' = Eval(ctl.node.expr)
       \/ /\ ctl.m = "value" /\ TopIs("visit_expression")
          /\ stack' = Pop
          /\ ctl' = Unit

\* Interpreter::visit_function
Interpreter_visit_function ==
    /\ ctl.m = "exec" /\ ctl.node.k = "Function"
    /\ envs' = Environment_define(envs, environment, ctl.node.name,
                                  LoxFunction(ctl.node, environment, FALSE))
    /\ ctl' = Unit
    /\ UNCHANGED <<prog, stack, environment, insts, locals, out>>

\* Interpreter::visit_if
Interpreter_visit_if ==
    /\ UNCHANGED <<prog, environment, envs, insts, locals, out>>
    /\ \/ /\ ctl.m = "exec" /\ ctl.node.k = "If"
          /\ stack' = Append(stack, Frame("visit_if", ctl.node))
          /\ ctl' = Eval(ctl.node.condition)
       \/ /\ ctl.m = "value" /\ TopIs("visit_if")
          /\ stack' = Pop
          /\ ctl' = IF is_truthy(ctl.v) THEN Exec(Top.node.then_branch)
                    ELSE IF Top.node.else_branch.k # "None"
                         THEN Exec(Top.node.else_branch)
                         ELSE Unit

\* Interpreter::visit_print
Interpreter_visit_print ==
    /\ UNCHANGED <<prog, environment, envs, insts, locals>>
    /\ \/ /\ ctl.m = "exec" /\ ctl.node.k = "Print"
          /\ stack' = Append(stack, Frame("visit_print", ctl.node))
          /\ ctl' = Eval(ctl.node.expr)
          /\ out' = out
       \/ /\ ctl.m = "value" /\ TopIs("visit_print")
          /\ stack' = Pop
          /\ out' = Append(out, ctl.v)
          /\ ctl' = Unit

\* Interpreter::visit_return
Interpreter_visit_return ==
    /\ UNCHANGED <<prog, environment, envs, insts, locals, out>>
    /\ \/ /\ ctl.m = "exec" /\ ctl.node.k = "Return"
          /\ IF ctl.node.value.k = "None"
             THEN ctl' = Error(ReturnSignal(Nil)) /\ stack' = stack
             ELSE /\ stack' = Append(stack, Frame("visit_return", ctl.node))
                  /\ ctl' = Eval(ctl.node.value)
       \/ /\ ctl.m = "value" /\ TopIs("visit_return")
          /\ stack' = Pop
          /\ ctl' = Error(ReturnSignal(ctl.v))

\* Interpreter::visit_var
Interpreter_visit_var ==
    /\ UNCHANGED <<prog, environment, insts, locals, out>>
    /\ \/ /\ ctl.m = "exec" /\ ctl.node.k = "Var"
          /\ IF ctl.node.initializer.k = "None"
             THEN /\ envs' = Environment_define(envs, environment, ctl.node.name, Uninit)
                  /\ ctl' = Unit
                  /\ stack' = stack
             ELSE /\ stack' = Append(stack, Frame("visit_var", ctl.node))
                  /\ ctl' = Eval(ctl.node.initializer)
                  /\ envs' = envs
       \/ /\ ctl.m = "value" /\ TopIs("visit_var")
          /\ envs' = Environment_define(envs, environment, Top.node.name, ctl.v)
          /\ stack' = Pop
          /\ ctl' = Unit

\* Interpreter::visit_while
Interpreter_visit_while ==
    /\ UNCHANGED <<prog, environment, envs, insts, locals, out>>
    /\ \/ /\ ctl.m = "exec" /\ ctl.node.k = "While"
          /\ stack' = Append(stack, Frame("visit_while", ctl.node))
          /\ ctl' = Eval(ctl.node.condition)
       \/ /\ ctl.m = "value" /\ TopIs("visit_while")
          /\ IF is_truthy(ctl.v)
             THEN ctl' = Exec(Top.node.body) /\ stack' = stack
             ELSE ctl' = Unit /\ stack' = Pop
       \/ /\ ctl.m = "unit" /\ TopIs("visit_while")
          /\ ctl' = Eval(Top.node.condition)
          /\ stack' = stack

-----------------------------------------------------------------------------
(* Operators on values (interpreter/value.rs, interpreter/mod.rs).         *)

\* impl PartialEq for Value
Value_eq(l, r) ==
    CASE l.t = "num" /\ r.t = "num" -> l.v = r.v
      [] l.t = "str" /\ r.t = "str" -> l.v = r.v
      [] l.t = "bool" /\ r.t = "bool" -> l.v = r.v
      [] l.t = "nil" /\ r.t = "nil" -> TRUE
      [] OTHER -> FALSE

\* Not for Value that takes the number 0 and the empty string for falsy
Value_not_zero_falsy(v) ==
    CASE v.t = "bool" -> Boolean(~v.v)
      [] v.t = "nil" -> Boolean(TRUE)
      [] v.t = "num" -> Boolean(v.v = 0)
      [] v.t = "str" -> Boolean(v.v = "")
      [] OTHER -> Boolean(FALSE)

\* impl Not for Value
Value_not(v) ==
    CASE v.t = "bool" -> Boolean(~v.v)
      [] v.t = "nil" -> Boolean(TRUE)
      [] OTHER -> Boolean(FALSE)

\* impl Div for Value: numbers are modelled by integers, and a quotient that is
\* not one keeps its numerator and denominator
Value_div(l, r) ==
    IF r.v # 0 /\ l.v % r.v = 0 THEN Number(l.v \div r.v)
    ELSE [t |-> "num", frac |-> <<l.v, r.v>>]

\* Interpreter::check_number_operand and the match of Interpreter::visit_unary
unary_op(operator, right) ==
    CASE operator = "Minus" ->
            IF right.t = "num" THEN ROk(Number(0 - right.v))
            ELSE RErr(Err("NumberOperand", operator))
      [] operator = "Bang" -> ROk(Value_not(right))
      [] OTHER -> RErr(Err("NumberOperand", operator))

\* Interpreter::check_number_operands
check_number_operands(left, right) == left.t = "num" /\ right.t = "num"

\* the match of Interpreter::visit_binary
binary_op(operator, left, right) ==
    CASE operator = "Plus" ->
            IF left.t = "str" /\ right.t = "str" THEN ROk(String(left.v \o right.v))
            ELSE IF left.t = "num" /\ right.t = "num" THEN ROk(Number(left.v + right.v))
            ELSE RErr(Err("NumberOrStringOperands", operator))
      [] operator = "EqualEqual" -> ROk(Boolean(Value_eq(left, right)))
      [] operator = "BangEqual" -> ROk(Boolean(~Value_eq(left, right)))
      [] operator \in {"Minus", "Slash", "Star", "Greater", "Less",
                       "GreaterEqual", "LessEqual"} ->
            IF ~check_number_operands(left, right)
            THEN RErr(Err("MutlipleNumberOperands", operator))
            ELSE CASE operator = "Minus" -> ROk(Number(left.v - right.v))
                   [] operator = "Slash" -> ROk(Value_div(left, right))
                   [] operator = "Star" -> ROk(Number(left.v * right.v))
                   [] operator = "Greater" -> ROk(Boolean(left.v > right.v))
                   [] operator = "Less" -> ROk(Boolean(left.v < right.v))
                   [] operator = "GreaterEqual" -> ROk(Boolean(left.v >= right.v))
                   [] operator = "LessEqual" -> ROk(Boolean(left.v <= right.v))
      [] OTHER -> ROk(Nil)

-----------------------------------------------------------------------------
(* Callables (interpreter/callable.rs, interpreter/class.rs).              *)

\* LoxClass::find_method
find_method(class, name) ==
    IF name \in DOMAIN class.methods THEN class.methods[name] ELSE None

\* LoxCallable::arity of LoxFunction, LoxClass and Clock
arity(callee) ==
    CASE callee.t = "fun" -> Len(callee.declaration.params)
      [] callee.t = "class" ->
            IF find_method(callee, "init") # None
            THEN Len(find_method(callee, "init").declaration.params)
            ELSE 0
      [] callee.t = "native" -> 0

\* LoxFunction::bind_rc: a fresh environment that encloses the closure and defines
\* `this`.  The only Rc of that environment is the local `environment`, dropped
\* when bind_rc returns: the environment is in the table, and no Rc owns it.
bind_rc(es, alive, function, instance) ==
    LET environment_ == Len(es) + 1
        es1 == Append(es, Environment_new(Upgrade(alive, function.closure)))
    IN  [es |-> Environment_define(es1, environment_, "this", Instance(instance)),
         function |-> LoxFunction(function.declaration, environment_,
                                  function.is_initializer)]

\* LoxFunction::bind: as bind_rc, for `this` bound to a new Rc of the LoxInstance
\* passed by value
bind(es, is, alive, function, instance) ==
    LET b == bind_rc(es, alive, function, Len(is) + 1) IN
    [es |-> b.es, is |-> Append(is, instance), function |-> b.function]

\* LoxInstance::get
LoxInstance_get(es, is, alive, ref, name) ==
    IF name \in DOMAIN is[ref].fields
    THEN [res |-> ROk(is[ref].fields[name]), es |-> es, is |-> is]
    ELSE LET method == find_method(is[ref].class, name) IN
         IF method # None
         THEN LET b == bind(es, is, alive, method, is[ref]) IN
              [res |-> ROk(b.function), es |-> b.es, is |-> b.is]
         ELSE [res |-> RErr(Err("UndefinedProperty", name)), es |-> es, is |-> is]

\* LoxInstance::set
LoxInstance_set(is, ref, name, value) ==
    [is EXCEPT ![ref].fields = Put(@, name, value)]

RECURSIVE define_params(_, _, _, _)
\* the params loop of LoxFunction::call: each parameter takes the next argument
define_params(es, e, params, arguments) ==
    IF params = <<>> THEN es
    ELSE define_params(Environment_define(es, e, Head(params), Head(arguments)),
                       e, Tail(params), Tail(arguments))

-----------------------------------------------------------------------------
(* Calls: LoxCallable::call of LoxFunction, LoxClass and Clock.  `base` is *)
(* the stack of the caller, `es` and `is` the tables as the caller left    *)
(* them.                                                                   *)

\* the seconds std::time::SystemTime::now() may give
ClockTimes == {0, 1}

\* LoxFunction::call up to execute_block: the environment of the call encloses the
\* closure if that still lives, the parameters are defined, the body is entered
LoxFunction_call(function, arguments, base, es, is) ==
    LET params == function.declaration.params IN
    IF Len(arguments) < Len(params)
    THEN /\ ctl' = Error(Err("CallableError", "InternalError"))
         /\ stack' = base
         /\ envs' = es
         /\ insts' = is
         /\ environment' = environment
    ELSE /\ envs' = define_params(
                        Append(es, Environment_new(Upgrade(Alive, function.closure))),
                        Len(es) + 1, params, arguments)
         /\ insts' = is
         /\ stack' = base \o
                <<[k |-> "LoxFunction_call", function |-> function],
                  [k |-> "execute_block", rest |-> function.declaration.body,
                   env |-> Len(es) + 1, prev |-> environment]>>
         /\ environment' = Len(es) + 1
         /\ ctl' = Unit

\* LoxFunction::call after execute_block: Ok(()) gives nil, a Return its value, an
\* initializer `this` of its closure
LoxFunction_call_return ==
    /\ TopIs("LoxFunction_call")
    /\ ctl.m \in {"unit", "err"}
    /\ LET function == Top.function
           this_ == IF function.closure \in Alive
                    THEN Returned(Environment_get_at(envs, Alive, function.closure,
                                                     0, "this"))
                    ELSE Error(Err("EnvironmentCreationError", "this"))
           res == IF ctl.m = "unit" THEN Value(Nil)
                  ELSE IF ctl.err.kind = "Return" THEN Value(ctl.err.value)
                  ELSE ctl
       IN  ctl' = IF function.is_initializer THEN this_ ELSE res
    /\ stack' = Pop
    /\ UNCHANGED <<prog, environment, envs, insts, locals, out>>

\* LoxClass::call: a new instance; `init`, if the class has one, is bound to it and
\* called
LoxClass_call(class, arguments, base) ==
    LET instance_rc == Len(insts) + 1
        is1 == Append(insts, LoxInstance(class))
        initializer == find_method(class, "init")
    IN  IF initializer # None
        THEN LET b == bind_rc(envs, Alive, initializer, instance_rc) IN
             LoxFunction_call(b.function, arguments,
                              Append(base, [k |-> "LoxClass_call",
                                            instance |-> instance_rc]),
                              b.es, is1)
        ELSE /\ ctl' = Value(Instance(instance_rc))
             /\ insts' = is1
             /\ stack' = base
             /\ UNCHANGED <<environment, envs>>

\* LoxClass::call after the initializer returned: its Err is handed on (`?`), its
\* Ok value is dropped for Ok(Value::Instance(instance_rc))
LoxClass_call_return ==
    /\ TopIs("LoxClass_call")
    /\ ctl.m \in {"value", "err"}
    /\ ctl' = IF ctl.m = "err" THEN ctl ELSE Value(Instance(Top.instance))
    /\ stack' = Pop
    /\ UNCHANGED <<prog, environment, envs, insts, locals, out>>

\* Clock::call
Clock_call(base) ==
    /\ \E now \in ClockTimes : ctl' = Value(Number(now))
    /\ stack' = base
    /\ UNCHANGED <<environment, envs, insts>>

\* Interpreter::visit_call once callee and arguments are evaluated: the callable
\* check, the arity check, function.call
call_function(node, callee, arguments, base) ==
    IF ~IsCallable(callee)
    THEN /\ ctl' = Error(Err("NotCallable", "paren"))
         /\ stack' = base
         /\ UNCHANGED <<environment, envs, insts>>
    ELSE IF Len(arguments) # arity(callee)
    THEN /\ ctl' = Error(Err("ArgumentCount", "paren"))
         /\ stack' = base
         /\ UNCHANGED <<environment, envs, insts>>
    ELSE CASE callee.t = "fun" -> LoxFunction_call(callee, arguments, base, envs, insts)
           [] callee.t = "class" -> LoxClass_call(callee, arguments, base)
           [] callee.t = "native" -> Clock_call(base)

-----------------------------------------------------------------------------
(* Interpreter as ExprVisitor.                                             *)

\* Interpreter::visit_literal
Interpreter_visit_literal ==
    /\ ctl.m = "eval" /\ ctl.node.k = "Literal"
    /\ ctl' = Value(Value_from(ctl.node.value))
    /\ UNCHANGED <<prog, stack, environment, envs, insts, locals, out>>

\* Interpreter::visit_grouping
Interpreter_visit_grouping ==
    /\ ctl.m = "eval" /\ ctl.node.k = "Grouping"
    /\ ctl' = Eval(ctl.node.value)
    /\ UNCHANGED <<prog, stack, environment, envs, insts, locals, out>>

\* visit_logical that returns the truth value of a deciding left operand instead
\* of the operand
Interpreter_visit_logical_coercing ==
    /\ UNCHANGED <<prog, environment, envs, insts, locals, out>>
    /\ \/ /\ ctl.m = "eval" /\ ctl.node.k = "Logical"
          /\ stack' = Append(stack, Frame("visit_logical", ctl.node))
          /\ ctl' = Eval(ctl.node.left)
       \/ /\ ctl.m = "value" /\ TopIs("visit_logical")
          /\ stack' = Pop
          /\ ctl' = IF \/ Top.node.operator = "Or" /\ is_truthy(ctl.v)
                       \/ Top.node.operator = "And" /\ ~is_truthy(ctl.v)
                    THEN Value(Boolean(is_truthy(ctl.v)))
                    ELSE Eval(Top.node.right)

\* Interpreter::visit_logical
Interpreter_visit_logical ==
    /\ UNCHANGED <<prog, environment, envs, insts, locals, out>>
    /\ \/ /\ ctl.m = "eval" /\ ctl.node.k = "Logical"
          /\ stack' = Append(stack, Frame("visit_logical", ctl.node))
          /\ ctl' = Eval(ctl.node.left)
       \/ /\ ctl.m = "value" /\ TopIs("visit_logical")
          /\ stack' = Pop
          /\ ctl' = IF \/ Top.node.operator = "Or" /\ is_truthy(ctl.v)
                       \/ Top.node.operator = "And" /\ ~is_truthy(ctl.v)
                    THEN ctl
                    ELSE Eval(Top.node.right)

\* Interpreter::visit_set
Interpreter_visit_set ==
    /\ UNCHANGED <<prog, environment, envs, locals, out>>
    /\ \/ /\ ctl.m = "eval" /\ ctl.node.k = "Set"
          /\ stack' = Append(stack, Frame("visit_set_object", ctl.node))
          /\ ctl' = Eval(ctl.node.object)
          /\ insts' = insts
       \/ /\ ctl.m = "value" /\ TopIs("visit_set_object")
          /\ insts' = insts
          /\ IF ctl.v.t # "inst"
             THEN /\ ctl' = Error(Err("InvalidPropertyAccess", Top.node.name))
                  /\ stack' = Pop
             ELSE /\ ctl' = Eval(Top.node.value)
                  /\ stack' = Append(Pop, [k |-> "visit_set_value", node |-> Top.node,
                                           instance |-> ctl.v.ref])
       \/ /\ ctl.m = "value" /\ TopIs("visit_set_value")
          /\ insts' = LoxInstance_set(insts, Top.instance, Top.node.name, ctl.v)
          /\ stack' = Pop
          /\ ctl' = ctl

\* Interpreter::visit_super
Interpreter_visit_super ==
    /\ ctl.m = "eval" /\ ctl.node.k = "Super"
    /\ LET node == ctl.node
           distance == locals[node.id]
           superclass == Environment_get_at(envs, Alive, environment, distance, "super")
           object == Environment_get_at(envs, Alive, environment, distance - 1, "this")
           method == find_method(superclass.v, node.method)
           b == bind_rc(envs, Alive, method, object.v.ref)
       IN  IF node.id \notin DOMAIN locals
           THEN ctl' = Halt("panic", Err("panic", "unwrap")) /\ envs' = envs
           ELSE IF superclass.st = "panic" \/ distance = 0
           THEN ctl' = Halt("panic", Err("panic", "get_at")) /\ envs' = envs
           ELSE IF object.st = "panic"
           THEN ctl' = Halt("panic", Err("panic", "get_at")) /\ envs' = envs
           ELSE IF superclass.v.t # "class" \/ object.v.t # "inst"
           THEN ctl' = Error(Err("SuperclassNotAClass", "super")) /\ envs' = envs
           ELSE IF method = None
           THEN ctl' = Error(Err("UndefinedProperty", node.method)) /\ envs' = envs
           ELSE ctl' = Value(b.function) /\ envs' = b.es
    /\ UNCHANGED <<prog, stack, environment, insts, locals, out>>

\* Interpreter::visit_this
Interpreter_visit_this ==
    /\ ctl.m = "eval" /\ ctl.node.k = "This"
    /\ ctl' = Returned(lookup_variable(ctl.node.id, "this"))
    /\ UNCHANGED <<prog, stack, environment, envs, insts, locals, out>>

\* Interpreter::visit_unary
Interpreter_visit_unary ==
    /\ UNCHANGED <<prog, environment, envs, insts, locals, out>>
    /\ \/ /\ ctl.m = "eval" /\ ctl.node.k = "Unary"
          /\ stack' = Append(stack, Frame("visit_unary", ctl.node))
          /\ ctl' = Eval(ctl.node.value)
       \/ /\ ctl.m = "value" /\ TopIs("visit_unary")
          /\ stack' = Pop
          /\ ctl' = Returned(unary_op(Top.node.operator, ctl.v))

\* Interpreter::visit_binary
Interpreter_visit_binary ==
    /\ UNCHANGED <<prog, environment, envs, insts, locals, out>>
    /\ \/ /\ ctl.m = "eval" /\ ctl.node.k = "Binary"
          /\ stack' = Append(stack, Frame("visit_binary_left", ctl.node))
          /\ ctl' = Eval(ctl.node.left)
       \/ /\ ctl.m = "value" /\ TopIs("visit_binary_left")
          /\ stack' = Append(Pop, [k |-> "visit_binary_right", node |-> Top.node,
                                   left |-> ctl.v])
          /\ ctl' = Eval(Top.node.right)
       \/ /\ ctl.m = "value" /\ TopIs("visit_binary_right")
          /\ stack' = Pop
          /\ ctl' = Returned(binary_op(Top.node.operator, Top.left, ctl.v))

\* Interpreter::visit_call
Interpreter_visit_call ==
    /\ UNCHANGED <<prog, locals, out>>
    /\ \/ /\ ctl.m = "eval" /\ ctl.node.k = "Call"
          /\ stack' = Append(stack, Frame("visit_call_callee", ctl.node))
          /\ ctl' = Eval(ctl.node.callee)
          /\ UNCHANGED <<environment, envs, insts>>
       \/ /\ ctl.m = "value" /\ TopIs("visit_call_callee")
          /\ IF Top.node.arguments = <<>>
             THEN call_function(Top.node, ctl.v, <<>>, Pop)
             ELSE /\ stack' = Append(Pop, [k |-> "visit_call_arguments",
                                           node |-> Top.node, callee |-> ctl.v,
                                           arguments |-> <<>>,
                                           rest |-> Tail(Top.node.arguments)])
                  /\ ctl' = Eval(Head(Top.node.arguments))
                  /\ UNCHANGED <<environment, envs, insts>>
       \/ /\ ctl.m = "value" /\ TopIs("visit_call_arguments")
          /\ IF Top.rest = <<>>
             THEN call_function(Top.node, Top.callee, Append(Top.arguments, ctl.v), Pop)
             ELSE /\ stack' = [stack EXCEPT ![Len(stack)].arguments = Append(@, ctl.v),
                                            ![Len(stack)].rest = Tail(@)]
                  /\ ctl' = Eval(Head(Top.rest))
                  /\ UNCHANGED <<environment, envs, insts>>

\* Interpreter::visit_get
Interpreter_visit_get ==
    /\ UNCHANGED <<prog, environment, locals, out>>
    /\ \/ /\ ctl.m = "eval" /\ ctl.node.k = "Get"
          /\ stack' = Append(stack, Frame("visit_get", ctl.node))
          /\ ctl' = Eval(ctl.node.object)
          /\ UNCHANGED <<envs, insts>>
       \/ /\ ctl.m = "value" /\ TopIs("visit_get")
          /\ stack' = Pop
          /\ IF ctl.v.t = "inst"
             THEN LET g == LoxInstance_get(envs, insts, Alive, ctl.v.ref, Top.node.name)
                  IN  /\ ctl' = Returned(g.res)
                      /\ envs' = g.es
                      /\ insts' = g.is
             ELSE /\ ctl' = Error(Err("InvalidPropertyAccess", Top.node.name))
                  /\ UNCHANGED <<envs, insts>>

\* Interpreter::visit_assign
Interpreter_visit_assign ==
    /\ UNCHANGED <<prog, environment, insts, locals, out>>
    /\ \/ /\ ctl.m = "eval" /\ ctl.node.k = "Assign"
          /\ stack' = Append(stack, Frame("visit_assign", ctl.node))
          /\ ctl' = Eval(ctl.node.value)
          /\ envs' = envs
       \/ /\ ctl.m = "value" /\ TopIs("visit_assign")
          /\ stack' = Pop
          /\ LET node == Top.node
                 a == IF node.id \in DOMAIN locals
                      THEN Environment_assign_at(envs, Alive, environment,
                                                 locals[node.id], node.name, ctl.v)
                      ELSE Environment_assign(envs, Alive, globals, node.name, ctl.v)
             IN  /\ envs' = a.es
                 /\ ctl' = CASE a.st = "ok" -> ctl
                             [] a.st = "err" -> Error(Err("UndefinedVariable", node.name))
                             [] a.st = "panic" -> Halt("panic", Err("panic", "assign_at"))

\* Interpreter::visit_variable
Interpreter_visit_variable ==
    /\ ctl.m = "eval" /\ ctl.node.k = "Variable"
    /\ ctl' = Returned(lookup_variable(ctl.node.id, ctl.node.name))
    /\ UNCHANGED <<prog, stack, environment, envs, insts, locals, out>>

RECURSIVE class_methods(_, _, _)
\* the methods loop of Interpreter::visit_class: name -> LoxFunction, a later
\* method of the same name replacing an earlier one
class_methods(methods, closure, acc) ==
    IF methods = <<>> THEN acc
    ELSE class_methods(Tail(methods), closure,
            Put(acc, Head(methods).name,
                LoxFunction(Head(methods), closure, Head(methods).name = "init")))

\* Interpreter::visit_class
Interpreter_visit_class ==
    /\ ctl.m = "exec" /\ ctl.node.k = "Class"
    /\ LET node == ctl.node
           has_super == node.superclass.k # "None"
           superclass_value == lookup_variable(node.superclass.id, node.superclass.name)
           superclass == IF has_super /\ superclass_value.v.t = "class"
                         THEN superclass_value.v ELSE None
           es1 == Environment_define(envs, environment, node.name, Uninit)
           new_env == Len(envs) + 1
           es2 == IF has_super
                  THEN Environment_define(Append(es1, Environment_new(environment)),
                                          new_env, "super", superclass_value.v)
                  ELSE es1
           methods == class_methods(node.methods,
                                    IF has_super THEN new_env ELSE environment, <<>>)
           class == LoxClass(node.name, superclass, methods)
           a == Environment_assign(es2, Alive, environment, node.name, class)
       IN  IF has_super /\ superclass_value.st # "ok"
           THEN ctl' = Returned(superclass_value) /\ envs' = envs
           ELSE IF has_super /\ superclass_value.v.t \in {"fun", "native"}
           THEN ctl' = Error(Err("SuperclassNotAClass", node.name)) /\ envs' = envs
           ELSE IF a.st = "err"
           THEN ctl' = Error(Err("UndefinedVariable", node.name)) /\ envs' = a.es
           ELSE ctl' = Unit /\ envs' = a.es
    /\ UNCHANGED <<prog, stack, environment, insts, locals, out>>

-----------------------------------------------------------------------------
(* The programs the model runs: Lox sources as the parser hands them to    *)
(* the Resolver.  Each comment gives the source text.                      *)

Num(n) == ExprLiteral(LitF64(n))
Str(s) == ExprLiteral(LitString(s))
True == ExprLiteral(LitBool(TRUE))
False == ExprLiteral(LitBool(FALSE))
CallNoArgs(id, name) == ExprCall(ExprVariable(id, name), <<>>)

\* every sequence over S of length at most n
SeqsUpTo(S, n) == UNION {[1..k -> S] : k \in 0..n}

\* fun makeCounter() { var n = 0; fun c() { n = n + 1; return n; } return c; }
\* var c1 = makeCounter(); var c2 = makeCounter();
\* print c1(); (k times)  print c2(); print c1();
CounterProgram(k) ==
    <<StmtFunction("makeCounter", <<>>,
        <<StmtVar("n", Num(0)),
          StmtFunction("c", <<>>,
            <<StmtExpression(ExprAssign(1, "n",
                    ExprBinary(ExprVariable(2, "n"), "Plus", Num(1)))),
              StmtReturn(ExprVariable(3, "n"))>>),
          StmtReturn(ExprVariable(4, "c"))>>),
      StmtVar("c1", CallNoArgs(5, "makeCounter")),
      StmtVar("c2", CallNoArgs(6, "makeCounter"))>>
    \o [i \in 1..k |-> StmtPrint(CallNoArgs(10 + i, "c1"))]
    \o <<StmtPrint(CallNoArgs(7, "c2")), StmtPrint(CallNoArgs(8, "c1"))>>

\* class A { m() { return this; } }
\* var obj = A(); var m = obj.m; obj.tag = 7; print m().tag;
DetachedProgram ==
    <<StmtClass("A", None, <<StmtFunction("m", <<>>, <<StmtReturn(ExprThis(1))>>)>>),
      StmtVar("obj", CallNoArgs(2, "A")),
      StmtVar("m", ExprGet(ExprVariable(4, "obj"), "m")),
      StmtExpression(ExprSet(ExprVariable(3, "obj"), "tag", Num(7))),
      StmtPrint(ExprGet(CallNoArgs(5, "m"), "tag"))>>

\* class A { put(v) { this.f = v; } }
\* var obj = A(); var alias = obj; obj.put(5); print obj.f; print alias.f;
FieldProgram ==
    <<StmtClass("A", None,
        <<StmtFunction("put", <<"v">>,
            <<StmtExpression(ExprSet(ExprThis(1), "f", ExprVariable(2, "v")))>>)>>),
      StmtVar("obj", CallNoArgs(3, "A")),
      StmtVar("alias", ExprVariable(4, "obj")),
      StmtExpression(ExprCall(ExprGet(ExprVariable(5, "obj"), "put"), <<Num(5)>>)),
      StmtPrint(ExprGet(ExprVariable(6, "obj"), "f")),
      StmtPrint(ExprGet(ExprVariable(7, "alias"), "f"))>>

\* class A {} var o = A(); var p = o; o.f = 1; print p.f;
SetProgram ==
    <<StmtClass("A", None, <<>>),
      StmtVar("o", CallNoArgs(1, "A")),
      StmtVar("p", ExprVariable(2, "o")),
      StmtExpression(ExprSet(ExprVariable(3, "o"), "f", Num(1))),
      StmtPrint(ExprGet(ExprVariable(4, "p"), "f"))>>

\* class A { m() { return 1; } }  class B < A {}  class C < B {}
\* the three classes of the inheritance programs
InheritClasses ==
    <<StmtClass("A", None, <<StmtFunction("m", <<>>, <<StmtReturn(Num(1))>>)>>),
      StmtClass("B", ExprVariable(1, "A"), <<>>),
      StmtClass("C", ExprVariable(2, "B"), <<>>)>>

\* ... print A().m();      (n = 0: a method of the instance's own class)
\* ... print B().m();      (n = 1: of the superclass)
\* ... print C().m();      (n = 2: of the superclass of the superclass)
InheritProgram(n) ==
    InheritClasses \o
    <<StmtPrint(ExprCall(ExprGet(CallNoArgs(3, <<"A", "B", "C">>[n + 1]), "m"), <<>>))>>

\* ... print C().zz;       (no class of the chain defines zz)
InheritMissingProgram ==
    InheritClasses \o <<StmtPrint(ExprGet(CallNoArgs(3, "C"), "zz"))>>

\* class A { m() { return 1; } }  class B < A {}
\* class C < B { n() { return super.m(); } }  print C().n();
SuperProgram ==
    <<StmtClass("A", None, <<StmtFunction("m", <<>>, <<StmtReturn(Num(1))>>)>>),
      StmtClass("B", ExprVariable(1, "A"), <<>>),
      StmtClass("C", ExprVariable(2, "B"),
        <<StmtFunction("n", <<>>,
            <<StmtReturn(ExprCall(ExprSuper(3, "m"), <<>>))>>)>>),
      StmtPrint(ExprCall(ExprGet(CallNoArgs(4, "C"), "n"), <<>>))>>

\* class C { init(x) { this.x = x; } } var c = C(7); print c.x;
InitProgram ==
    <<StmtClass("C", None,
        <<StmtFunction("init", <<"x">>,
            <<StmtExpression(ExprSet(ExprThis(1), "x", ExprVariable(2, "x")))>>)>>),
      StmtVar("c", ExprCall(ExprVariable(3, "C"), <<Num(7)>>)),
      StmtPrint(ExprGet(ExprVariable(4, "c"), "x"))>>

\* class D { init() { return; } } var d = D(); d.f = 1; print d.f;   (n = 0)
\* class D { init() { } }         var d = D(); d.f = 1; print d.f;   (n = 1)
InitBareProgram(n) ==
    <<StmtClass("D", None,
        <<StmtFunction("init", <<>>,
            IF n = 0 THEN <<StmtReturn(None)>> ELSE <<>>)>>),
      StmtVar("d", CallNoArgs(1, "D")),
      StmtExpression(ExprSet(ExprVariable(2, "d"), "f", Num(1))),
      StmtPrint(ExprGet(ExprVariable(3, "d"), "f"))>>

RECURSIVE InBlocks(_, _)
\* the statements stmts inside n nested blocks
InBlocks(n, stmts) ==
    IF n = 0 THEN stmts ELSE <<StmtBlock(InBlocks(n - 1, stmts))>>

RECURSIVE ShadowingBlocks(_, _)
\* { var x = "b"; { var x = "b"; ... f(); } }: n blocks around the call of f
ShadowingBlocks(n, call) ==
    IF n = 0 THEN call
    ELSE StmtBlock(<<StmtVar("x", Str("b")), ShadowingBlocks(n - 1, call)>>)

\* var x = "a"; fun f() { print x; } { var x = "b"; ... f(); }
LexicalGlobalProgram(n) ==
    <<StmtVar("x", Str("a")),
      StmtFunction("f", <<>>, <<StmtPrint(ExprVariable(1, "x"))>>),
      ShadowingBlocks(n, StmtExpression(CallNoArgs(2, "f")))>>

\* { var x = "a"; fun f() { print x; } { var x = "b"; ... f(); } }
LexicalBlockProgram(n) ==
    <<StmtBlock(
        <<StmtVar("x", Str("a")),
          StmtFunction("f", <<>>, <<StmtPrint(ExprVariable(1, "x"))>>),
          ShadowingBlocks(n, StmtExpression(CallNoArgs(2, "f")))>>)>>

\* fun outer() { var x = "a"; fun f() { print x; } { var x = "b"; ... f(); } }
\* outer();
LexicalFunctionProgram(n) ==
    <<StmtFunction("outer", <<>>,
        <<StmtVar("x", Str("a")),
          StmtFunction("f", <<>>, <<StmtPrint(ExprVariable(1, "x"))>>),
          ShadowingBlocks(n, StmtExpression(CallNoArgs(2, "f")))>>),
      StmtExpression(CallNoArgs(3, "outer"))>>

\* var x = "a"; { ... { fun f() { print x; } f(); var x = "b"; f(); } ... }
LexicalLateProgram(n) ==
    <<StmtVar("x", Str("a"))>> \o
    InBlocks(n + 1, <<StmtFunction("f", <<>>, <<StmtPrint(ExprVariable(1, "x"))>>),
                      StmtExpression(CallNoArgs(2, "f")),
                      StmtVar("x", Str("b")),
                      StmtExpression(CallNoArgs(3, "f"))>>)

\* the constructs a `return` is nested in
NestKinds == {"block", "if", "while", "for"}

RECURSIVE Nested(_, _)
\* the statement s inside the constructs ws (outermost first):
\*   block: { s print "skipped"; }   if: if (true) s   while: while (true) s
\*   for: for (var i = 0; i < 1; i = i + 1) s, as Parser::for_statement hands it
\*        on: { var i = 0; while (i < 1) { s i = i + 1; } }
Nested(ws, s) ==
    IF ws = <<>> THEN s
    ELSE LET inner == Nested(Tail(ws), s)
             id == 100 + 10 * Len(ws)
         IN
         CASE Head(ws) = "block" -> StmtBlock(<<inner, StmtPrint(Str("skipped"))>>)
           [] Head(ws) = "if" -> StmtIf(True, inner, None)
           [] Head(ws) = "while" -> StmtWhile(True, inner)
           [] Head(ws) = "for" ->
                StmtBlock(<<StmtVar("i", Num(0)),
                    StmtWhile(ExprBinary(ExprVariable(id, "i"), "Less", Num(1)),
                        StmtBlock(<<inner,
                            StmtExpression(ExprAssign(id + 1, "i",
                                ExprBinary(ExprVariable(id + 2, "i"), "Plus",
                                           Num(1))))>>))>>)

\* fun f() { <return 7; nested in ws>  print "skipped"; }
\* fun g() { var r = f(); print "resumed"; return r; }
\* print g(); print "end";
ReturnNestProgram(ws) ==
    <<StmtFunction("f", <<>>,
        <<Nested(ws, StmtReturn(Num(7))), StmtPrint(Str("skipped"))>>),
      StmtFunction("g", <<>>,
        <<StmtVar("r", CallNoArgs(1, "f")),
          StmtPrint(Str("resumed")),
          StmtReturn(ExprVariable(2, "r"))>>),
      StmtPrint(CallNoArgs(3, "g")),
      StmtPrint(Str("end"))>>

\* fun f() { <print -"s"; nested in ws>  print "skipped"; }
\* { f(); print "skipped"; }
\* print "end";
ErrorNestProgram(ws) ==
    <<StmtFunction("f", <<>>,
        <<Nested(ws, StmtPrint(ExprUnary("Minus", Str("s")))),
          StmtPrint(Str("skipped"))>>),
      StmtBlock(<<StmtExpression(CallNoArgs(1, "f")), StmtPrint(Str("skipped"))>>),
      StmtPrint(Str("end"))>>

\* the statements that fail when run:  print -"s";   print nowhere;   "s"();
FailingStatement(n) ==
    CASE n = 1 -> StmtPrint(ExprUnary("Minus", Str("s")))
      [] n = 2 -> StmtPrint(ExprVariable(1, "nowhere"))
      [] n = 3 -> StmtExpression(ExprCall(Str("s"), <<>>))

\* class C { init() { <the n-th failing statement nested in ws> print "skipped"; } }
\* var c = C();
\* print "after";
InitErrorProgram(ws, n) ==
    <<StmtClass("C", None,
        <<StmtFunction("init", <<>>,
            <<Nested(ws, FailingStatement(n)), StmtPrint(Str("skipped"))>>)>>),
      StmtVar("c", ExprCall(ExprVariable(2, "C"), <<>>)),
      StmtPrint(Str("after"))>>

\* the values that are no class
NonClassKinds == {"number", "string", "boolean", "nil", "function", "native", "instance"}

\* var S = 1;  var S = "s";  var S = true;  var S = nil;  fun S() {}
\* var S = clock;  class K {} var S = K();
NonClassDeclaration(kind) ==
    CASE kind = "number" -> <<StmtVar("S", Num(1))>>
      [] kind = "string" -> <<StmtVar("S", Str("s"))>>
      [] kind = "boolean" -> <<StmtVar("S", ExprLiteral(LitBool(TRUE)))>>
      [] kind = "nil" -> <<StmtVar("S", ExprLiteral(LitNil))>>
      [] kind = "function" -> <<StmtFunction("S", <<>>, <<>>)>>
      [] kind = "native" -> <<StmtVar("S", ExprVariable(3, "clock"))>>
      [] kind = "instance" ->
            <<StmtClass("K", None, <<>>),
              StmtVar("S", ExprCall(ExprVariable(3, "K"), <<>>))>>

\* <S is declared as a value of the kind>
\* { ... { class B < S { m() {} } print B; } ... }   (inside n blocks)
\* print "declared";
NonClassProgram(kind, n) ==
    NonClassDeclaration(kind)
    \o InBlocks(n, <<StmtClass("B", ExprVariable(1, "S"),
                               <<StmtFunction("m", <<>>, <<>>)>>),
                     StmtPrint(ExprVariable(2, "B"))>>)
    \o <<StmtPrint(Str("declared"))>>

\* var x; print x;                  (n = 0: a global)
\* { ... { var x; print x; } ... }  (n blocks: a local)
UninitProgram(n) ==
    InBlocks(n, <<StmtVar("x", None), StmtPrint(ExprVariable(1, "x"))>>)

\* fun f() { var x; return x; } print f();
UninitFunctionProgram ==
    <<StmtFunction("f", <<>>, <<StmtVar("x", None), StmtReturn(ExprVariable(1, "x"))>>),
      StmtPrint(CallNoArgs(2, "f"))>>

\* what a `return` of the resolver programs is wrapped in
ScopeKinds == {"block", "while", "if", "fun", "method", "init", "afterfun"}

RECURSIVE Wrapped(_, _)
\* the statements stmts inside the constructs ws (outermost first); level i names
\* its function or class after i:
\*   block     { stmts }                 while   while (false) { stmts }
\*   if        if (true) { stmts }       fun     fun f_i() { stmts }
\*   method    class K_i { m() { stmts } }
\*   init      class K_i { init() { stmts } }
\*   afterfun  fun h_i() { return; } stmts
\*   submethod   class K_i < Base { m() { stmts } }
\*   afterclass  class K_i { m() { } } stmts
\*   aftersub    class K_i < Base { m() { } } stmts
Wrapped(ws, stmts) ==
    IF ws = <<>> THEN stmts
    ELSE LET inner == Wrapped(Tail(ws), stmts)
             i == Len(ws)
             fname == <<"f1", "f2", "f3", "f4">>[i]
             hname == <<"h1", "h2", "h3", "h4">>[i]
             kname == <<"K1", "K2", "K3", "K4">>[i]
         IN  CASE Head(ws) = "block" -> <<StmtBlock(inner)>>
               [] Head(ws) = "while" -> <<StmtWhile(False, StmtBlock(inner))>>
               [] Head(ws) = "if" -> <<StmtIf(True, StmtBlock(inner), None)>>
               [] Head(ws) = "fun" -> <<StmtFunction(fname, <<>>, inner)>>
               [] Head(ws) = "method" ->
                    <<StmtClass(kname, None, <<StmtFunction("m", <<>>, inner)>>)>>
               [] Head(ws) = "init" ->
                    <<StmtClass(kname, None, <<StmtFunction("init", <<>>, inner)>>)>>
               [] Head(ws) = "afterfun" ->
                    <<StmtFunction(hname, <<>>, <<StmtReturn(None)>>)>> \o inner
               [] Head(ws) = "submethod" ->
                    <<StmtClass(kname, ExprVariable(200 + i, "Base"),
                                <<StmtFunction("m", <<>>, inner)>>)>>
               [] Head(ws) = "afterclass" ->
                    <<StmtClass(kname, None, <<StmtFunction("m", <<>>, <<>>)>>)>>
                    \o inner
               [] Head(ws) = "aftersub" ->
                    <<StmtClass(kname, ExprVariable(200 + i, "Base"),
                                <<StmtFunction("m", <<>>, <<>>)>>)>> \o inner

\* <return 0; wrapped in ws>   (n = 1)      <return; wrapped in ws>   (n = 0)
ResolverReturnProgram(ws, n) ==
    Wrapped(ws, <<StmtReturn(IF n = 1 THEN Num(0) ELSE None)>>)

\* what a `this` or `super` of the resolver programs is wrapped in
ClassKinds == {"block", "fun", "method", "submethod", "afterclass", "aftersub"}

\* class Base { m() { } }  <print this; wrapped in ws>      (n = 0)
\* class Base { m() { } }  <print super.m; wrapped in ws>   (n = 1)
ResolverClassProgram(ws, n) ==
    <<StmtClass("Base", None, <<StmtFunction("m", <<>>, <<>>)>>)>> \o
    Wrapped(ws, <<StmtPrint(IF n = 0 THEN ExprThis(1) ELSE ExprSuper(2, "m"))>>)

\* { ... { class A < A {} } ... }   (n blocks, n = 0: at top level)
InheritSelfProgram(n) ==
    InBlocks(n, <<StmtClass("A", ExprVariable(1, "A"), <<>>)>>)

\* how the redeclaration programs declare a name
DeclKinds == {"var", "fun", "class", "param"}

\* var a = 1;  /  fun a() { }  /  class a { }
Decl(kind) ==
    CASE kind = "var" -> StmtVar("a", Num(1))
      [] kind = "fun" -> StmtFunction("a", <<>>, <<>>)
      [] kind = "class" -> StmtClass("a", None, <<>>)

\* two declarations of `a` of kinds ws[1] and ws[2], the second in the scope of
\* the first (ws[3] = "same") or in a scope nested in it ("nested"), inside n
\* blocks (n = 0: at global scope):
\*   { ... <decl a> <decl a> ... }            { ... <decl a> { <decl a> } ... }
\* a first declaration as parameter puts the second into the function:
\*   fun f(a) { <decl a> }                    fun f(a) { { <decl a> } }
\*   fun f(a, a) { }                          fun f(a) { fun g(a) { } }
RedeclareProgram(ws, n) ==
    LET second == IF ws[2] = "param" THEN StmtFunction("g", <<"a">>, <<>>)
                  ELSE Decl(ws[2])
        placed == IF ws[3] = "same" THEN <<second>> ELSE <<StmtBlock(<<second>>)>>
    IN  InBlocks(n,
            IF ws[1] = "param"
            THEN IF ws[2] = "param"
                 THEN IF ws[3] = "same"
                      THEN <<StmtFunction("f", <<"a", "a">>, <<>>)>>
                      ELSE <<StmtFunction("f", <<"a">>, <<second>>)>>
                 ELSE <<StmtFunction("f", <<"a">>, placed)>>
            ELSE <<Decl(ws[1])>> \o placed)

\* the shapes of the own-initializer programs
OwnInitKinds == {"global_outer", "local_outer", "nested_expr", "after_define"}

\* inside n + 1 blocks:
\*   global_outer   var a = 1; { ... { var a = a; } ... }
\*   local_outer    { ... { var a = 1; { var a = a; } } ... }
\*   nested_expr    { ... { var a = (a) + 1; } ... }
\*   after_define   { ... { var a = 1; var b = a; print b; } ... }
OwnInitProgram(kind, n) ==
    CASE kind = "global_outer" ->
            <<StmtVar("a", Num(1))>> \o
            InBlocks(n + 1, <<StmtVar("a", ExprVariable(1, "a"))>>)
      [] kind = "local_outer" ->
            InBlocks(n + 1, <<StmtVar("a", Num(1)),
                              StmtBlock(<<StmtVar("a", ExprVariable(1, "a"))>>)>>)
      [] kind = "nested_expr" ->
            InBlocks(n + 1,
                <<StmtVar("a", ExprBinary(ExprGrouping(ExprVariable(1, "a")),
                                          "Plus", Num(1)))>>)
      [] kind = "after_define" ->
            InBlocks(n + 1, <<StmtVar("a", Num(1)),
                              StmtVar("b", ExprVariable(1, "a")),
                              StmtPrint(ExprVariable(2, "b"))>>)

\* the kinds of operands of the operator programs
OperandKinds == {"number", "string", "boolean", "nil", "callable"}

\* the number and the string a left operand is (n picks one of two of each kind)
OperandNumber(n) == IF n = 0 THEN 6 ELSE 0
OperandString(n) == IF n = 0 THEN "s" ELSE ""

\* an operand of a kind:   6 or 0,   "s" or "",   true or false,   nil,
\* clock or f (a declared function)
Operand(kind, n, id) ==
    CASE kind = "number" -> Num(OperandNumber(n))
      [] kind = "string" -> Str(OperandString(n))
      [] kind = "boolean" -> IF n = 0 THEN True ELSE False
      [] kind = "nil" -> ExprLiteral(LitNil)
      [] kind = "callable" -> ExprVariable(id, IF n = 0 THEN "clock" ELSE "f")

\* a right operand of a kind:   3,   "t",   true,   nil,   clock
RightOperand(kind, id) ==
    IF kind = "number" THEN Num(3)
    ELSE IF kind = "string" THEN Str("t")
    ELSE Operand(kind, 0, id)

UnaryOperators == {"Minus", "Bang"}
BinaryOperators == {"Minus", "Star", "Slash", "Less", "LessEqual", "Greater",
                    "GreaterEqual", "Plus"}

\* fun f() { }  print <op> <operand>;
UnaryProgram(ws, n) ==
    <<StmtFunction("f", <<>>, <<>>),
      StmtPrint(ExprUnary(ws[1], Operand(ws[2], n, 1)))>>

\* fun f() { }  print <left> <op> <right>;
BinaryProgram(ws, n) ==
    <<StmtFunction("f", <<>>, <<>>),
      StmtPrint(ExprBinary(Operand(ws[2], n, 1), ws[1], RightOperand(ws[3], 2)))>>

\* the operands of the equality programs: literals, and the variables of
\*   fun f() { }  fun g() { }  class A { }  var o = A(); var p = A(); var q = o;
EqOperands == {"six", "three", "s", "t", "true", "false", "nil",
               "f", "g", "clock", "A", "o", "p", "q"}

EqOperand(name, id) ==
    CASE name = "six" -> Num(6)
      [] name = "three" -> Num(3)
      [] name \in {"s", "t"} -> Str(name)
      [] name = "true" -> True
      [] name = "false" -> False
      [] name = "nil" -> ExprLiteral(LitNil)
      [] OTHER -> ExprVariable(id, name)

\* fun f() { }  fun g() { }  class A { }  var o = A(); var p = A(); var q = o;
\* print <left> == <right>;   (n = 0)      print <left> != <right>;   (n = 1)
EqualityProgram(ws, n) ==
    <<StmtFunction("f", <<>>, <<>>),
      StmtFunction("g", <<>>, <<>>),
      StmtClass("A", None, <<>>),
      StmtVar("o", CallNoArgs(1, "A")),
      StmtVar("p", CallNoArgs(2, "A")),
      StmtVar("q", ExprVariable(3, "o")),
      StmtPrint(ExprBinary(EqOperand(ws[1], 4),
                           IF n = 0 THEN "EqualEqual" ELSE "BangEqual",
                           EqOperand(ws[2], 5)))>>

\* the values the operands of the logical programs return
LogicalLefts == {"six", "zero", "empty", "s", "true", "false", "nil"}
LogicalRights == {"t", "false", "nil"}

LogicalOperand(name) ==
    CASE name = "six" -> Num(6)
      [] name = "zero" -> Num(0)
      [] name = "empty" -> Str("")
      [] name \in {"s", "t"} -> Str(name)
      [] name = "true" -> True
      [] name = "false" -> False
      [] name = "nil" -> ExprLiteral(LitNil)

\* fun l() { print "L"; return <left>; }  fun r() { print "R"; return <right>; }
\* print l() or r();   (n = 0)      print l() and r();   (n = 1)
LogicalProgram(ws, n) ==
    <<StmtFunction("l", <<>>,
        <<StmtPrint(Str("L")), StmtReturn(LogicalOperand(ws[1]))>>),
      StmtFunction("r", <<>>,
        <<StmtPrint(Str("R")), StmtReturn(LogicalOperand(ws[2]))>>),
      StmtPrint(ExprLogical(CallNoArgs(1, "l"), IF n = 0 THEN "Or" ELSE "And",
                            CallNoArgs(2, "r")))>>

\* the shapes of the call-order programs
CallOrderKinds == {"noncallable_effect", "noncallable_error", "left_to_right",
                   "arity_after_arguments"}

\* fun a1() { print "a1"; return 1; }  fun a2() { print "a2"; return 2; }
\* fun f(x, y) { print x - y; }  fun callee() { print "callee"; return f; }
\*   noncallable_effect      "s"(a1());
\*   noncallable_error       "s"(nowhere);
\*   left_to_right           callee()(a1(), a2());
\*   arity_after_arguments   callee()(a1());
CallOrderProgram(kind) ==
    <<StmtFunction("a1", <<>>, <<StmtPrint(Str("a1")), StmtReturn(Num(1))>>),
      StmtFunction("a2", <<>>, <<StmtPrint(Str("a2")), StmtReturn(Num(2))>>),
      StmtFunction("f", <<"x", "y">>,
        <<StmtPrint(ExprBinary(ExprVariable(1, "x"), "Minus", ExprVariable(2, "y")))>>),
      StmtFunction("callee", <<>>,
        <<StmtPrint(Str("callee")), StmtReturn(ExprVariable(3, "f"))>>),
      StmtExpression(
        CASE kind = "noncallable_effect" -> ExprCall(Str("s"), <<CallNoArgs(4, "a1")>>)
          [] kind = "noncallable_error" ->
                ExprCall(Str("s"), <<ExprVariable(4, "nowhere")>>)
          [] kind = "left_to_right" ->
                ExprCall(CallNoArgs(4, "callee"),
                         <<CallNoArgs(5, "a1"), CallNoArgs(6, "a2")>>)
          [] kind = "arity_after_arguments" ->
                ExprCall(CallNoArgs(4, "callee"), <<CallNoArgs(5, "a1")>>))>>

\* The programs below are given as the characters of their text.
WordNames ==
    {"x", "_x", "_", "x_", "x_1", "t123", "classy", "Class",
     "format", "orchid", "nil_", "a1b2", "__init", "thisx", "vars", "and",
     "class", "else", "false", "for", "fun", "if", "nil", "or",
     "print", "return", "super", "this", "true", "var", "while"}

\* the characters of a word
Word(name) ==
    CASE name = "x" -> <<"x">>
      [] name = "_x" -> <<"_", "x">>
      [] name = "_" -> <<"_">>
      [] name = "x_" -> <<"x", "_">>
      [] name = "x_1" -> <<"x", "_", "1">>
      [] name = "t123" -> <<"t", "1", "2", "3">>
      [] name = "classy" -> <<"c", "l", "a", "s", "s", "y">>
      [] name = "Class" -> <<"C", "l", "a", "s", "s">>
      [] name = "format" -> <<"f", "o", "r", "m", "a", "t">>
      [] name = "orchid" -> <<"o", "r", "c", "h", "i", "d">>
      [] name = "nil_" -> <<"n", "i", "l", "_">>
      [] name = "a1b2" -> <<"a", "1", "b", "2">>
      [] name = "__init" -> <<"_", "_", "i", "n", "i", "t">>
      [] name = "thisx" -> <<"t", "h", "i", "s", "x">>
      [] name = "vars" -> <<"v", "a", "r", "s">>
      [] name = "and" -> <<"a", "n", "d">>
      [] name = "class" -> <<"c", "l", "a", "s", "s">>
      [] name = "else" -> <<"e", "l", "s", "e">>
      [] name = "false" -> <<"f", "a", "l", "s", "e">>
      [] name = "for" -> <<"f", "o", "r">>
      [] name = "fun" -> <<"f", "u", "n">>
      [] name = "if" -> <<"i", "f">>
      [] name = "nil" -> <<"n", "i", "l">>
      [] name = "or" -> <<"o", "r">>
      [] name = "print" -> <<"p", "r", "i", "n", "t">>
      [] name = "return" -> <<"r", "e", "t", "u", "r", "n">>
      [] name = "super" -> <<"s", "u", "p", "e", "r">>
      [] name = "this" -> <<"t", "h", "i", "s">>
      [] name = "true" -> <<"t", "r", "u", "e">>
      [] name = "var" -> <<"v", "a", "r">>
      [] name = "while" -> <<"w", "h", "i", "l", "e">>

\* <word>            (n = 0)
\* var <word>=1;     (n = 1)
WordText(name, n) ==
    IF n = 0 THEN Word(name)
    ELSE <<"v", "a", "r", " ">> \o Word(name) \o <<"=", "1", ";">>

\* The programs below are given as the tokens of their text; an identifier
\* that is used as an expression carries a span of its own.
Tk(kind) == Token(kind, kind, 0)
Ident(id, name) == Token("Ident", name, id)
NumberToken(n) == Token("Number", n, 0)
StringToken(s) == Token("String", s, 0)
\* Scanner::scan_tokens ends the list with EOF
Scanned(tokens) == Append(tokens, Tk("EOF"))

RECURSIVE Flatten(_)
Flatten(seqs) == IF seqs = <<>> THEN <<>> ELSE Head(seqs) \o Flatten(Tail(seqs))

StatementKinds == {"var", "print", "var_noname", "var_noinit", "class_noname",
                   "fun_noparen", "print_noexpr", "var_literal"}

\* var a = 1;   print 2;   var = 1;   var a = ;   class { }   fun f { }   print ;
\* var 1
StatementTokens(kind) ==
    CASE kind = "var" ->
            <<Tk("Var"), Ident(0, "a"), Tk("Equal"), NumberToken(1), Tk("Semicolon")>>
      [] kind = "print" -> <<Tk("Print"), NumberToken(2), Tk("Semicolon")>>
      [] kind = "var_noname" ->
            <<Tk("Var"), Tk("Equal"), NumberToken(1), Tk("Semicolon")>>
      [] kind = "var_noinit" ->
            <<Tk("Var"), Ident(0, "a"), Tk("Equal"), Tk("Semicolon")>>
      [] kind = "class_noname" -> <<Tk("Class"), Tk("LeftBrace"), Tk("RightBrace")>>
      [] kind = "fun_noparen" ->
            <<Tk("Fun"), Ident(0, "f"), Tk("LeftBrace"), Tk("RightBrace")>>
      [] kind = "print_noexpr" -> <<Tk("Print"), Tk("Semicolon")>>
      [] kind = "var_literal" -> <<Tk("Var"), NumberToken(1)>>

\* the statements of ws, one after the other
StatementsTokens(ws) == Scanned(Flatten([i \in DOMAIN ws |-> StatementTokens(ws[i])]))

\* the left-hand sides and the right-hand sides of an assignment
AssignTargets == {"variable", "get", "get_call", "literal", "grouping", "call",
                  "binary", "unary", "this"}
AssignValues == {"number", "assign", "set", "literal_assign"}

\* a    o.f    g().f    1    (a)    g()    a + b    -a    this
TargetTokens(target) ==
    CASE target = "variable" -> <<Ident(1, "a")>>
      [] target = "get" -> <<Ident(1, "o"), Tk("Dot"), Ident(0, "f")>>
      [] target = "get_call" ->
            <<Ident(1, "g"), Tk("LeftParen"), Tk("RightParen"), Tk("Dot"), Ident(0, "f")>>
      [] target = "literal" -> <<NumberToken(1)>>
      [] target = "grouping" -> <<Tk("LeftParen"), Ident(1, "a"), Tk("RightParen")>>
      [] target = "call" -> <<Ident(1, "g"), Tk("LeftParen"), Tk("RightParen")>>
      [] target = "binary" -> <<Ident(1, "a"), Tk("Plus"), Ident(2, "b")>>
      [] target = "unary" -> <<Tk("Minus"), Ident(1, "a")>>
      [] target = "this" -> <<Token("This", "this", 1)>>

\* the `=` tokens of a text are told apart by their id
EqualToken(id) == Token("Equal", "=", id)

\* 2    c = 2    o.h = 2    3 = 2
ValueTokens(value) ==
    CASE value = "number" -> <<NumberToken(2)>>
      [] value = "assign" -> <<Ident(3, "c"), EqualToken(2), NumberToken(2)>>
      [] value = "set" ->
            <<Ident(3, "o"), Tk("Dot"), Ident(0, "h"), EqualToken(2), NumberToken(2)>>
      [] value = "literal_assign" -> <<NumberToken(3), EqualToken(2), NumberToken(2)>>

\* <target> = <value>;
AssignTokens(ws) ==
    Scanned(TargetTokens(ws[1]) \o <<EqualToken(1)>> \o ValueTokens(ws[2])
            \o <<Tk("Semicolon")>>)

ForClauses == {"absent", "var", "expr"} \X {"absent", "present"} \X {"absent", "present"}

\* fun f() {
\*   var i = 9;
\*   for (<var i = 0 | i = 0 | nothing>; <i < 2 | nothing>; <i = i + 1 | nothing>) {
\*     print i;  if (i >= 2) return;  <i = i + 1; when there is no increment clause>
\*   }
\*   print i;
\* }
\* f();
ForTokens(ws) ==
    Scanned(
        <<Tk("Fun"), Ident(0, "f"), Tk("LeftParen"), Tk("RightParen"), Tk("LeftBrace"),
          Tk("Var"), Ident(0, "i"), Tk("Equal"), NumberToken(9), Tk("Semicolon"),
          Tk("For"), Tk("LeftParen")>>
        \o (CASE ws[1] = "var" -> <<Tk("Var"), Ident(0, "i"), Tk("Equal"), NumberToken(0)>>
              [] ws[1] = "expr" -> <<Ident(1, "i"), Tk("Equal"), NumberToken(0)>>
              [] ws[1] = "absent" -> <<>>)
        \o <<Tk("Semicolon")>>
        \o (IF ws[2] = "present" THEN <<Ident(2, "i"), Tk("Less"), NumberToken(2)>>
            ELSE <<>>)
        \o <<Tk("Semicolon")>>
        \o (IF ws[3] = "present"
            THEN <<Ident(3, "i"), Tk("Equal"), Ident(4, "i"), Tk("Plus"), NumberToken(1)>>
            ELSE <<>>)
        \o <<Tk("RightParen"), Tk("LeftBrace"),
              Tk("Print"), Ident(5, "i"), Tk("Semicolon"),
              Tk("If"), Tk("LeftParen"), Ident(6, "i"), Tk("GreaterEqual"),
              NumberToken(2), Tk("RightParen"), Tk("Return"), Tk("Semicolon")>>
        \o (IF ws[3] = "absent"
            THEN <<Ident(7, "i"), Tk("Equal"), Ident(8, "i"), Tk("Plus"), NumberToken(1),
                   Tk("Semicolon")>>
            ELSE <<>>)
        \o <<Tk("RightBrace"),
              Tk("Print"), Ident(9, "i"), Tk("Semicolon"), Tk("RightBrace"),
              Ident(10, "f"), Tk("LeftParen"), Tk("RightParen"), Tk("Semicolon")>>)

\* class A { }
\* class B <nothing | < A> { <n methods: m1() { } m2() { }> }
\* print "parsed";
ClassTokens(ws, n) ==
    Scanned(
        <<Tk("Class"), Ident(0, "A"), Tk("LeftBrace"), Tk("RightBrace"),
          Tk("Class"), Ident(0, "B")>>
        \o (IF ws[1] = "superclass" THEN <<Tk("Less"), Ident(1, "A")>> ELSE <<>>)
        \o <<Tk("LeftBrace")>>
        \o Flatten([i \in 1..n |->
                <<Ident(0, IF i = 1 THEN "m1" ELSE "m2"), Tk("LeftParen"),
                  Tk("RightParen"), Tk("LeftBrace"), Tk("RightBrace")>>])
        \o <<Tk("RightBrace"),
              Tk("Print"), StringToken("parsed"), Tk("Semicolon")>>)

\* 1: print 1 + 2 * 3;
\* 2: var a = 1; { var a = 2; print a; } print a;
\* 3: fun fib(n) { if (n < 2) return n; return fib(n - 1) + fib(n - 2); }
\*    print fib(3);
\* 4: print (nil or "x"); print 1 and 2; print !true; print -3; print clock() >= 0;
\* 5: var i = 0; while (i < 2) { print i; i = i + 1; }
\*    if (i == 2) print "two"; else print "other";  if (false) print 1;
\* 6: { var j = 0; j = j + 1; print j; }  print 6 / 3 - 1 <= 1;  print "a" + "b" != "ab";
MiscProgram(n) ==
    CASE n = 1 ->
        <<StmtPrint(ExprBinary(Num(1), "Plus", ExprBinary(Num(2), "Star", Num(3))))>>
      [] n = 2 ->
        <<StmtVar("a", Num(1)),
          StmtBlock(<<StmtVar("a", Num(2)), StmtPrint(ExprVariable(1, "a"))>>),
          StmtPrint(ExprVariable(2, "a"))>>
      [] n = 3 ->
        <<StmtFunction("fib", <<"n">>,
            <<StmtIf(ExprBinary(ExprVariable(1, "n"), "Less", Num(2)),
                     StmtReturn(ExprVariable(2, "n")), None),
              StmtReturn(ExprBinary(
                ExprCall(ExprVariable(3, "fib"),
                         <<ExprBinary(ExprVariable(4, "n"), "Minus", Num(1))>>),
                "Plus",
                ExprCall(ExprVariable(5, "fib"),
                         <<ExprBinary(ExprVariable(6, "n"), "Minus", Num(2))>>)))>>),
          StmtPrint(ExprCall(ExprVariable(7, "fib"), <<Num(3)>>))>>
      [] n = 4 ->
        <<StmtPrint(ExprGrouping(ExprLogical(ExprLiteral(LitNil), "Or", Str("x")))),
          StmtPrint(ExprLogical(Num(1), "And", Num(2))),
          StmtPrint(ExprUnary("Bang", True)),
          StmtPrint(ExprUnary("Minus", Num(3))),
          StmtPrint(ExprBinary(CallNoArgs(1, "clock"), "GreaterEqual", Num(0)))>>
      [] n = 5 ->
        <<StmtVar("i", Num(0)),
          StmtWhile(ExprBinary(ExprVariable(1, "i"), "Less", Num(2)),
            StmtBlock(<<StmtPrint(ExprVariable(2, "i")),
                        StmtExpression(ExprAssign(3, "i",
                            ExprBinary(ExprVariable(4, "i"), "Plus", Num(1))))>>)),
          StmtIf(ExprBinary(ExprVariable(5, "i"), "EqualEqual", Num(2)),
                 StmtPrint(Str("two")), StmtPrint(Str("other"))),
          StmtIf(False, StmtPrint(Num(1)), None)>>
      [] n = 6 ->
        <<StmtBlock(<<StmtVar("j", Num(0)),
                      StmtExpression(ExprAssign(1, "j",
                          ExprBinary(ExprVariable(2, "j"), "Plus", Num(1)))),
                      StmtPrint(ExprVariable(3, "j"))>>),
          StmtPrint(ExprBinary(
              ExprBinary(ExprBinary(Num(6), "Slash", Num(3)), "Minus", Num(1)),
              "LessEqual", Num(1))),
          StmtPrint(ExprBinary(ExprBinary(Str("a"), "Plus", Str("b")),
                               "BangEqual", Str("ab")))>>

\* 1: print nowhere;                 2: "s"();
\* 3: fun f(a) {} f();               4: print 1.x;
\* 5: nil.x = 2;                     6: nowhere = 1;
\* 7: print -"s";                    8: class X < clock {}
\* 9: var A = 1; class Y < A {} print "declared";
ErrorProgram(n) ==
    CASE n = 1 -> <<StmtPrint(ExprVariable(1, "nowhere"))>>
      [] n = 2 -> <<StmtExpression(ExprCall(Str("s"), <<>>))>>
      [] n = 3 -> <<StmtFunction("f", <<"a">>, <<>>),
                    StmtExpression(CallNoArgs(1, "f"))>>
      [] n = 4 -> <<StmtPrint(ExprGet(Num(1), "x"))>>
      [] n = 5 -> <<StmtExpression(ExprSet(ExprLiteral(LitNil), "x", Num(2)))>>
      [] n = 6 -> <<StmtExpression(ExprAssign(1, "nowhere", Num(1)))>>
      [] n = 7 -> <<StmtPrint(ExprUnary("Minus", Str("s")))>>
      [] n = 8 -> <<StmtClass("X", ExprVariable(1, "clock"), <<>>)>>
      [] n = 9 -> <<StmtVar("A", Num(1)),
                    StmtClass("Y", ExprVariable(1, "A"), <<>>),
                    StmtPrint(Str("declared"))>>

\* the shapes of the redeclaration programs: a parameter is redeclared as
\* parameter only
RedeclareShapes ==
    {ws \in DeclKinds \X DeclKinds \X {"same", "nested"} :
        ws[2] = "param" => ws[1] = "param"}

\* a program is named by its family, a number and a nesting
Choice(name, n, ws) == [name |-> name, n |-> n, ws |-> ws]

Choices ==
    {Choice("counter", n, <<>>) : n \in 1..MaxCalls}
    \cup {Choice(name, 0, <<>>) : name \in {"detached", "field", "set", "super", "init",
                                            "inherit_missing", "uninit_function"}}
    \cup {Choice("inherit", n, <<>>) : n \in 0..2}
    \cup {Choice("init_bare", n, <<>>) : n \in 0..1}
    \cup {Choice(name, n, <<>>) : name \in {"lexical_global", "lexical_block",
                                            "lexical_function", "lexical_late",
                                            "uninit"},
                                  n \in 0..MaxNest}
    \cup {Choice("return_nest", 0, ws) : ws \in SeqsUpTo(NestKinds, MaxNest)}
    \cup {Choice("resolver_return", n, ws) : n \in 0..1,
                                             ws \in SeqsUpTo(ScopeKinds, MaxNest)}
    \cup {Choice("resolver_class", n, ws) : n \in 0..1,
                                            ws \in SeqsUpTo(ClassKinds, MaxNest)}
    \cup {Choice("inherit_self", n, <<>>) : n \in 0..MaxNest}
    \cup {Choice("unary", n, ws) : n \in 0..1, ws \in UnaryOperators \X OperandKinds}
    \cup {Choice("binary", n, ws) :
                n \in 0..1, ws \in BinaryOperators \X OperandKinds \X OperandKinds}
    \cup {Choice("equality", n, ws) : n \in 0..1, ws \in EqOperands \X EqOperands}
    \cup {Choice("logical", n, ws) : n \in 0..1, ws \in LogicalLefts \X LogicalRights}
    \cup {Choice("call_order", 0, <<kind>>) : kind \in CallOrderKinds}
    \cup {Choice("statements", 0, ws) :
                ws \in StatementKinds \X StatementKinds
                        \cup StatementKinds \X StatementKinds \X StatementKinds}
    \cup {Choice("for_clauses", 0, ws) : ws \in ForClauses}
    \cup {Choice("class_decl", n, <<clause>>) : n \in 0..MaxNest,
                                                clause \in {"none", "superclass"}}
    \cup {Choice("word", n, <<name>>) : n \in 0..1, name \in WordNames}
    \cup {Choice("error_nest", 0, ws) : ws \in SeqsUpTo(NestKinds, MaxNest)}
    \cup {Choice("assign", 0, ws) : ws \in AssignTargets \X AssignValues}
    \cup {Choice("init_error", n, ws) : n \in 1..3, ws \in SeqsUpTo({"block", "if"}, 1)}
    \cup {Choice("non_class", n, <<kind>>) : n \in 0..1, kind \in NonClassKinds}
    \cup {Choice("own_init", n, <<kind>>) : n \in 0..MaxNest, kind \in OwnInitKinds}
    \cup {Choice("redeclare", n, ws) : n \in 0..MaxNest, ws \in RedeclareShapes}
    \cup {Choice("misc", n, <<>>) : n \in 1..6}
    \cup {Choice("error", n, <<>>) : n \in 1..9}

\* the programs that are given as tokens
Texts == {"statements", "for_clauses", "class_decl", "assign"}

\* the programs that are given as characters
Files == {"word"}

\* the characters of a chosen program
FileSource(c) ==
    CASE c.name = "word" -> WordText(c.ws[1], c.n)

\* the tokens of a chosen program
TokenSource(c) ==
    CASE c.name = "statements" -> StatementsTokens(c.ws)
      [] c.name = "for_clauses" -> ForTokens(c.ws)
      [] c.name = "class_decl" -> ClassTokens(c.ws, c.n)
      [] c.name = "assign" -> AssignTokens(c.ws)

\* the statements of a chosen program that is given as statements
Source(c) ==
    CASE c.name = "counter" -> CounterProgram(c.n)
      [] c.name = "detached" -> DetachedProgram
      [] c.name = "field" -> FieldProgram
      [] c.name = "set" -> SetProgram
      [] c.name = "super" -> SuperProgram
      [] c.name = "init" -> InitProgram
      [] c.name = "inherit_missing" -> InheritMissingProgram
      [] c.name = "uninit_function" -> UninitFunctionProgram
      [] c.name = "inherit" -> InheritProgram(c.n)
      [] c.name = "init_bare" -> InitBareProgram(c.n)
      [] c.name = "lexical_global" -> LexicalGlobalProgram(c.n)
      [] c.name = "lexical_block" -> LexicalBlockProgram(c.n)
      [] c.name = "lexical_function" -> LexicalFunctionProgram(c.n)
      [] c.name = "lexical_late" -> LexicalLateProgram(c.n)
      [] c.name = "uninit" -> UninitProgram(c.n)
      [] c.name = "return_nest" -> ReturnNestProgram(c.ws)
      [] c.name = "error_nest" -> ErrorNestProgram(c.ws)
      [] c.name = "init_error" -> InitErrorProgram(c.ws, c.n)
      [] c.name = "non_class" -> NonClassProgram(c.ws[1], c.n)
      [] c.name = "resolver_return" -> ResolverReturnProgram(c.ws, c.n)
      [] c.name = "resolver_class" -> ResolverClassProgram(c.ws, c.n)
      [] c.name = "inherit_self" -> InheritSelfProgram(c.n)
      [] c.name = "redeclare" -> RedeclareProgram(c.ws, c.n)
      [] c.name = "own_init" -> OwnInitProgram(c.ws[1], c.n)
      [] c.name = "unary" -> UnaryProgram(c.ws, c.n)
      [] c.name = "call_order" -> CallOrderProgram(c.ws[1])
      [] c.name = "logical" -> LogicalProgram(c.ws, c.n)
      [] c.name = "equality" -> EqualityProgram(c.ws, c.n)
      [] c.name = "binary" -> BinaryProgram(c.ws, c.n)
      [] c.name = "misc" -> MiscProgram(c.n)
      [] c.name = "error" -> ErrorProgram(c.n)

-----------------------------------------------------------------------------
(* The specification.                                                      *)

Init ==
    /\ \E c \in Choices :
          prog = [name |-> c.name, n |-> c.n, ws |-> c.ws,
                  source |-> IF c.name \in Files THEN FileSource(c) ELSE <<>>,
                  tokens |-> IF c.name \in Texts THEN TokenSource(c) ELSE <<>>,
                  stmts |-> IF c.name \in Files \cup Texts THEN <<>> ELSE Source(c)]
    /\ ctl = [m |-> CASE prog.name \in Files -> "scan"
                      [] prog.name \in Texts -> "parse"
                      [] OTHER -> "start"]
    /\ stack = <<>>
    /\ environment = Interpreter_new.environment
    /\ envs = Interpreter_new.envs
    /\ insts = <<>>
    /\ locals = <<>>
    /\ out = <<>>

Next ==
    \/ Scan
    \/ Parse
    \/ Resolve
    \/ interpret
    \/ execute_block_next
    \/ execute_block_exit
    \/ propagate
    \/ Interpreter_visit_block
    \/ Interpreter_visit_class
    \/ Interpreter_visit_expression
    \/ Interpreter_visit_function
    \/ Interpreter_visit_if
    \/ Interpreter_visit_print
    \/ Interpreter_visit_return
    \/ Interpreter_visit_var
    \/ Interpreter_visit_while
    \/ Interpreter_visit_literal
    \/ Interpreter_visit_grouping
    \/ Interpreter_visit_logical
    \/ Interpreter_visit_set
    \/ Interpreter_visit_super
    \/ Interpreter_visit_this
    \/ Interpreter_visit_unary
    \/ Interpreter_visit_binary
    \/ Interpreter_visit_call
    \/ Interpreter_visit_get
    \/ Interpreter_visit_assign
    \/ Interpreter_visit_variable
    \/ LoxFunction_call_return
    \/ LoxClass_call_return

Spec == Init /\ [][Next]_vars

-----------------------------------------------------------------------------
(* Environment::assign on its own.  The interpreter calls assign on        *)
(* globals and on the environment a class was just defined in, where the   *)
(* walk ends at once; here it is called on every environment of a nest of  *)
(* blocks, with the names bound in any of them.                            *)

AssignNames == {"a", "b"}

\* globals and `depth` nested blocks in progress, environment i binding the
\* names binds[i]; with `orphan` the receiver is the current environment and
\* no block holds its ancestors any more
AssignInit ==
    \E depth \in 0..MaxNest + 1, orphan \in BOOLEAN :
    \E binds \in [1..depth + 1 -> SUBSET AssignNames], e \in 1..depth + 1,
       name \in AssignNames :
        /\ orphan => e = depth + 1
        /\ prog = [name |-> "assign_call", n |-> depth, ws |-> <<>>, source |-> <<>>,
                   tokens |-> <<>>, stmts |-> <<>>]
        /\ envs = [i \in 1..depth + 1 |->
                      [values |-> [n \in binds[i] |->
                                      IF n = "b" /\ i = 1 THEN Uninit ELSE Number(i)],
                       enclosing |-> i - 1]]
        /\ environment = depth + 1
        /\ stack = IF orphan THEN <<>>
                   ELSE [i \in 1..depth |->
                            [k |-> "execute_block", rest |-> <<>>, env |-> i + 1,
                             prev |-> i]]
        /\ ctl = [m |-> "assign", e |-> e, name |-> name, value |-> String("v")]
        /\ insts = <<>>
        /\ locals = <<>>
        /\ out = <<>>

\* envs[e].borrow_mut().assign(name, value)
Assign ==
    /\ ctl.m = "assign"
    /\ LET a == Environment_assign(envs, Alive, ctl.e, ctl.name, ctl.value) IN
       /\ envs' = a.es
       /\ ctl' = [ctl EXCEPT !.m = IF a.st = "ok" THEN "Ok" ELSE "UndefinedVariable"]
    /\ UNCHANGED <<prog, stack, environment, insts, locals, out>>

AssignNext == Assign

AssignSpec == AssignInit /\ [][AssignNext]_vars

\* the run is over
Halted == ctl.m = "halt"

-----------------------------------------------------------------------------
(* The properties.  What a program must have printed is written down from  *)
(* the Lox text in the comment of its definition.                          *)

\* the run has ended with exit code 0 and printed exactly expected
EndsWith(expected) == ctl.res = "ok" /\ out = expected

\* C1: in the makeCounter program the k-th call of the first counter yields k
\* (1, 2, ..., n), the first call of the second counter yields 1, and the next call
\* of the first counter yields n + 1: the second counter did not change the first
C1_CountersCount ==
    (prog.name = "counter" /\ Halted) =>
        EndsWith([i \in 1..prog.n |-> Number(i)] \o <<Number(1), Number(prog.n + 1)>>)

\* C2: a method read from obj, stored in a variable and called through it evaluates
\* `this` to obj itself: the tag written to obj after the method was read is
\* printed through the `this` the method returns
C2_DetachedThis ==
    (prog.name = "detached" /\ Halted) => EndsWith(<<Number(7)>>)

\* C3: the field a method writes through `this` when invoked as obj.put(5) is read
\* back as 5 through obj and through the alias of obj
C3_FieldThroughThis ==
    (prog.name = "field" /\ Halted) => EndsWith(<<Number(5), Number(5)>>)

C5_InitializerReturnsThis ==
    /\ (prog.name = "init" /\ Halted) => EndsWith(<<Number(7)>>)
    /\ (prog.name = "init_bare" /\ Halted) => EndsWith(<<Number(1)>>)

\* the programs that declare x = "a", a function f printing x, and call f where
\* another x = "b" is in scope
LexicalPrograms == {"lexical_global", "lexical_block", "lexical_function", "lexical_late"}

\* what a lexical program prints: "a" for every call of f
LexicalOut == IF prog.name = "lexical_late" THEN <<String("a"), String("a")>>
              ELSE <<String("a")>>

ReturnNestOut == <<String("resumed"), Number(7), String("end")>>

\* one step of a Return signal: it leaves the visitor on top and prints nothing;
\* a visitor that is no call hands it on unchanged, the call of a function that is
\* no initializer turns it into the value it carries
ReturnUnwinding ==
    (ctl.m = "err" /\ ctl.err.kind = "Return") =>
        /\ stack # <<>>
        /\ stack' = Pop
        /\ out' = out
        /\ IF Top.k = "LoxFunction_call"
           THEN Top.function.is_initializer \/ ctl' = Value(ctl.err.value)
           ELSE ctl' = ctl /\ Top.k # "interpret"

\* C7: a Return signal is handed on by every block, if and while it passes and is
\* turned into the call's value by the innermost function call; in the nesting
\* programs nothing after the `return` runs in f, g resumes after its call of f
\* and returns f's value, and the program runs to its end
C7_ReturnUnwinds ==
    [][/\ ReturnUnwinding
       /\ (prog.name = "return_nest" /\ ctl'.m = "halt") =>
              (ctl'.res = "ok" /\ out' = ReturnNestOut)]_vars

\* C7: a `return` inside a for loop inside a while loop has been unwound
C7_Witness ==
    /\ prog.name = "return_nest" /\ prog.ws = <<"while", "for">>
    /\ Halted /\ out = ReturnNestOut

\* C8: `var x; print x;` prints nil when x is a global and when x is a local of a
\* block or of a function body
C8_UninitializedIsNil ==
    (prog.name \in {"uninit", "uninit_function"} /\ Halted) => EndsWith(<<Nil>>)

RECURSIVE InnermostFunction(_)
\* the function-like construct of ws nearest to the wrapped statement; a function
\* declared and closed before it (afterfun) encloses nothing
InnermostFunction(ws) ==
    IF ws = <<>> THEN "None"
    ELSE IF ws[Len(ws)] \in {"fun", "method", "init"} THEN ws[Len(ws)]
    ELSE InnermostFunction(SubSeq(ws, 1, Len(ws) - 1))

\* the resolver error a `return` (n = 1: with a value) wrapped in ws must raise
ExpectedReturnError(ws, n) ==
    IF InnermostFunction(ws) = "None" THEN "TopLevelReturn"
    ELSE IF InnermostFunction(ws) = "init" /\ n = 1 THEN "ReturnInConstructor"
    ELSE "none"

\* C10: a `return` is rejected by its innermost enclosing function alone: with none
\* (also after a declared function, in blocks and loops) TopLevelReturn; with a
\* value directly in init ReturnInConstructor; otherwise (bare in init, with a
\* value in a function nested in init, in any function or method) it is accepted
C10_ReturnRules ==
    (prog.name = "resolver_return" /\ ctl.m # "start") =>
        LET expected == ExpectedReturnError(prog.ws, prog.n)
            rejected == Halted /\ ctl.res = "ResolverError"
        IN  IF expected = "none" THEN ~rejected
            ELSE rejected /\ ctl.err.kind = expected

\* C10: `return 0;` in a function nested in init has been accepted and the program
\* has run
C10_Witness ==
    /\ prog.name = "resolver_return" /\ prog.ws = <<"init", "fun">> /\ prog.n = 1
    /\ Halted /\ ctl.res = "ok"

RECURSIVE InnermostClass(_)
\* the class type in force at the statement wrapped in ws: that of the nearest
\* class whose method encloses it; a class declared and closed before it
\* (afterclass, aftersub) encloses nothing
InnermostClass(ws) ==
    IF ws = <<>> THEN "None"
    ELSE IF ws[Len(ws)] = "method" THEN "Class"
    ELSE IF ws[Len(ws)] = "submethod" THEN "Subclass"
    ELSE InnermostClass(SubSeq(ws, 1, Len(ws) - 1))

\* the resolver error a `this` (n = 0) or `super` (n = 1) wrapped in ws must raise
ExpectedClassError(ws, n) ==
    IF InnermostClass(ws) = "None"
    THEN IF n = 0 THEN "ThisOutsideClass" ELSE "SuperOutsideClass"
    ELSE IF InnermostClass(ws) = "Class" /\ n = 1 THEN "SuperInClassWithoutSuperclass"
    ELSE "none"

\* C11: `this` is rejected outside every class body and `super` everywhere except
\* in a method of a class with a superclass, also after a class (or subclass) was
\* declared and closed and in a class without superclass that encloses a subclass;
\* inside they are accepted; a class naming itself as superclass is rejected
C11_ClassContextRules ==
    /\ (prog.name = "resolver_class" /\ ctl.m # "start") =>
          LET expected == ExpectedClassError(prog.ws, prog.n)
              rejected == Halted /\ ctl.res = "ResolverError"
          IN  IF expected = "none" THEN ~rejected
              ELSE rejected /\ ctl.err.kind = expected
    /\ (prog.name = "inherit_self" /\ ctl.m # "start") =>
          (Halted /\ ctl.res = "ResolverError" /\ ctl.err = Err("InheritanceCycle", "A"))

\* C11: `super` in a method of a class without superclass, after a subclass was
\* declared inside that method, has been rejected
C11_Witness ==
    /\ prog.name = "resolver_class" /\ prog.ws = <<"method", "aftersub">> /\ prog.n = 1
    /\ Halted /\ ctl.err.kind = "SuperInClassWithoutSuperclass"

\* the scope of the first declaration is not the global one: it is inside a
\* block, or it is the scope of a function's parameters
InLocalScope == prog.n > 0 \/ prog.ws[1] = "param"

\* C12: a second declaration of a name (var, fun, class or parameter) in the same
\* innermost non-global scope is rejected with SameNameVariableInLocalScope; at
\* global scope, and in a scope nested in the one of the first declaration, it is
\* accepted
C12_Redeclaration ==
    (prog.name = "redeclare" /\ ctl.m # "start") =>
        LET rejected == Halted /\ ctl.res = "ResolverError" IN
        IF prog.ws[3] = "same" /\ InLocalScope
        THEN rejected /\ ctl.err = Err("SameNameVariableInLocalScope", "a")
        ELSE ~rejected

\* C12: a class declared in a block under the name of a function of that block
\* has been rejected
C12_Witness ==
    /\ prog.name = "redeclare" /\ prog.ws = <<"fun", "class", "same">> /\ prog.n = 1
    /\ Halted /\ ctl.err.kind = "SameNameVariableInLocalScope"

\* C13: in a block, a read of `a` inside the initializer of `var a` is rejected
\* with VariableInOwnInitializer, whether an outer `a` exists in globals, in an
\* enclosing block, or not at all; a read of `a` after its `var` statement is
\* accepted and yields its value
C13_OwnInitializer ==
    (prog.name = "own_init" /\ ctl.m # "start") =>
        IF prog.ws[1] = "after_define"
        THEN Halted => EndsWith(<<Number(1)>>)
        ELSE /\ Halted /\ ctl.res = "ResolverError"
             /\ ctl.err = Err("VariableInOwnInitializer", "a")

\* C13: `var a = a;` in a block has been rejected although a global `a` exists
C13_Witness ==
    /\ prog.name = "own_init" /\ prog.ws = <<"global_outer">>
    /\ Halted /\ ctl.err.kind = "VariableInOwnInitializer"

\* the run has ended with the runtime error `kind` at the token `token`
FailsWith(kind, token) == ctl.res = "RuntimeError" /\ ctl.err = Err(kind, token)

\* the operand of the unary programs is truthy: everything but false and nil
OperandTruthy == ~(prog.ws[2] = "nil" \/ (prog.ws[2] = "boolean" /\ prog.n = 1))

\* what `print <op> <operand>;` must end with
UnaryExpected ==
    IF prog.ws[1] = "Bang" THEN EndsWith(<<Boolean(~OperandTruthy)>>)
    ELSE IF prog.ws[2] = "number" THEN EndsWith(<<Number(0 - OperandNumber(prog.n))>>)
    ELSE FailsWith("NumberOperand", "Minus")

\* what `print <left> <op> 3;` must print, both operands being numbers
ArithmeticExpected(op, l) ==
    CASE op = "Minus" -> Number(l - 3)
      [] op = "Star" -> Number(l * 3)
      [] op = "Slash" -> Number(l \div 3)
      [] op = "Plus" -> Number(l + 3)
      [] op = "Less" -> Boolean(l < 3)
      [] op = "LessEqual" -> Boolean(l <= 3)
      [] op = "Greater" -> Boolean(l > 3)
      [] op = "GreaterEqual" -> Boolean(l >= 3)

\* what `print <left> <op> <right>;` must end with
BinaryExpected ==
    LET op == prog.ws[1]
        kinds == <<prog.ws[2], prog.ws[3]>>
    IN  IF kinds = <<"number", "number">>
        THEN EndsWith(<<ArithmeticExpected(op, OperandNumber(prog.n))>>)
        ELSE IF op = "Plus"
             THEN IF kinds = <<"string", "string">>
                  THEN EndsWith(<<String(OperandString(prog.n) \o "t")>>)
                  ELSE FailsWith("NumberOrStringOperands", "Plus")
             ELSE ctl.res = "RuntimeError" /\ ctl.err.token = op
                  /\ ctl.err.kind \in {"NumberOperand", "MutlipleNumberOperands"}

\* C14: for every operator and every kind of operand (number, string, boolean,
\* nil, native and declared function): unary - yields the negation of a number
\* and fails with NumberOperand at the operator on everything else; ! never fails
\* and yields true exactly on false and nil; - * / < <= > >= yield their result on
\* two numbers and fail with a number-operand error at the operator otherwise; +
\* adds two numbers, concatenates two strings and fails with
\* NumberOrStringOperands otherwise
C14_OperatorTyping ==
    /\ (prog.name = "unary" /\ Halted) => UnaryExpected
    /\ (prog.name = "binary" /\ Halted) => BinaryExpected

\* C14: `"" + nil` has failed with NumberOrStringOperands
C14_Witness ==
    /\ prog.name = "binary" /\ prog.ws = <<"Plus", "string", "nil">> /\ prog.n = 1
    /\ Halted /\ ctl.err.kind = "NumberOrStringOperands"

\* the value an operand of the equality programs denotes: q is the instance o
Denoted(name) == IF name = "q" THEN "o" ELSE name

\* C15: == is true exactly when both operands denote the same value (the same
\* number, string, boolean, nil; the same function, native function, class or
\* instance), != is its negation, and neither ever raises an error
C15_Equality ==
    (prog.name = "equality" /\ Halted) =>
        EndsWith(<<Boolean((Denoted(prog.ws[1]) = Denoted(prog.ws[2])) = (prog.n = 0))>>)

\* the value a literal operand of the logical programs evaluates to
LogicalValue(name) ==
    CASE name = "six" -> Number(6)
      [] name = "zero" -> Number(0)
      [] name = "empty" -> String("")
      [] name \in {"s", "t"} -> String(name)
      [] name = "true" -> Boolean(TRUE)
      [] name = "false" -> Boolean(FALSE)
      [] name = "nil" -> Nil

\* the left operand of the logical program decides the result: truthy
\* (everything but false and nil) for `or`, falsy for `and`
LeftDecides == (prog.ws[1] \notin {"false", "nil"}) = (prog.n = 0)

\* two lists of printed values are the same: as long, and value by value of
\* the same type and equal
SameValues(a, b) ==
    Len(a) = Len(b) /\ \A i \in DOMAIN a : a[i].t = b[i].t /\ a[i] = b[i]

\* what a logical program prints: L, then the left value if it decides, else R
\* and the right value
LogicalOut ==
    IF LeftDecides THEN <<String("L"), LogicalValue(prog.ws[1])>>
    ELSE <<String("L"), String("R"), LogicalValue(prog.ws[2])>>

\* C16: in `l() or r()` and `l() and r()` the left operand runs first; if it
\* decides (truthy for or, falsy for and) its own value is the result, uncoerced,
\* and the right operand never runs; otherwise the right operand runs exactly
\* once and its value is the result
C16_ShortCircuit ==
    prog.name = "logical" =>
        /\ Len(out) <= Len(LogicalOut)
        /\ SameValues(out, SubSeq(LogicalOut, 1, Len(out)))
        /\ (Halted => ctl.res = "ok" /\ SameValues(out, LogicalOut))

\* C16: `0 and r()`: the truthy 0 did not decide, the right operand ran and gave
\* the result
C16_Witness ==
    /\ prog.name = "logical" /\ prog.n = 1 /\ prog.ws = <<"zero", "nil">>
    /\ Halted /\ out = <<String("L"), String("R"), Nil>>

\* C17: a call whose callee is no callable fails with NotCallable before any
\* argument runs (no print of an argument, no error of an argument); with a
\* callable callee the callee runs first, then the arguments left to right, then
\* the arity is checked, then the function is called
C17_CallOrder ==
    (prog.name = "call_order" /\ Halted) =>
        CASE prog.ws[1] \in {"noncallable_effect", "noncallable_error"} ->
                FailsWith("NotCallable", "paren") /\ out = <<>>
          [] prog.ws[1] = "left_to_right" ->
                EndsWith(<<String("callee"), String("a1"), String("a2"), Number(0 - 1)>>)
          [] prog.ws[1] = "arity_after_arguments" ->
                /\ FailsWith("ArgumentCount", "paren")
                /\ out = <<String("callee"), String("a1")>>

\* the parse errors main printed: the one error Parser::parse returned
Reported == IF Halted /\ ctl.res = "ParserError" THEN <<ctl.err>> ELSE <<>>

Malformed(kind) == kind \notin {"var", "print"}

\* the syntax error of a malformed statement taken alone
StatementError(kind) ==
    CASE kind \in {"var_noname", "var_literal"} -> "InvalidAssignmentTarget"
      [] kind \in {"var_noinit", "print_noexpr"} -> "UnexpectedToken"
      [] kind = "class_noname" -> "ExpectedClassName"
      [] kind = "fun_noparen" -> "ExpectedLeftParenAfterFunctionName"

\* the errors of the malformed statements of a text, in order
StatementErrors(ws) ==
    LET bad == SelectSeq(ws, Malformed) IN [i \in DOMAIN bad |-> StatementError(bad[i])]

\* C18: when statements of a text have syntax errors, the parser recovers
\* after each of them and goes on, so that the run reports the error of every
\* malformed statement (both errors of two malformed statements), and the
\* result of the parse is an error.
C18_ErrorsAccumulate ==
    prog.name = "statements" /\ ctl.m # "parse" =>
        /\ [i \in DOMAIN Reported |-> Reported[i].kind] = StatementErrors(prog.ws)
        /\ (StatementErrors(prog.ws) # <<>> => Halted /\ ctl.res = "ParserError")

\* the body of the loop of the for_clauses text
ForBody(ws) ==
    StmtBlock(
        <<StmtPrint(ExprVariable(5, "i")),
          StmtIf(ExprBinary(ExprVariable(6, "i"), "GreaterEqual", Num(2)),
                 StmtReturn(None), None)>>
        \o (IF ws[3] = "absent"
            THEN <<StmtExpression(ExprAssign(7, "i",
                        ExprBinary(ExprVariable(8, "i"), "Plus", Num(1))))>>
            ELSE <<>>))

\* the while loop a for statement stands for: the condition or `true`, and
\* the body, followed by the increment when there is one
ForWhile(ws) ==
    StmtWhile(
        IF ws[2] = "present" THEN ExprBinary(ExprVariable(2, "i"), "Less", Num(2))
        ELSE True,
        IF ws[3] = "present"
        THEN StmtBlock(<<ForBody(ws),
                         StmtExpression(ExprAssign(3, "i",
                             ExprBinary(ExprVariable(4, "i"), "Plus", Num(1))))>>)
        ELSE ForBody(ws))

\* the statement a for statement stands for: a block of the initializer and
\* the loop, or the loop alone when there is no initializer
ForDesugared(ws) ==
    CASE ws[1] = "var" -> StmtBlock(<<StmtVar("i", Num(0)), ForWhile(ws)>>)
      [] ws[1] = "expr" ->
            StmtBlock(<<StmtExpression(ExprAssign(1, "i", Num(0))), ForWhile(ws)>>)
      [] ws[1] = "absent" -> ForWhile(ws)

ForProgram(ws) ==
    <<StmtFunction("f", <<>>,
        <<StmtVar("i", Num(9)), ForDesugared(ws), StmtPrint(ExprVariable(9, "i"))>>),
      StmtExpression(CallNoArgs(10, "f"))>>

\* what the for_clauses text prints from the iteration that starts with i:
\* the loop ends when the condition fails (then the `i` after the loop is
\* printed: the outer 9 under a `var` initializer) or with the return at 2
RECURSIVE ForPrints(_, _)
ForPrints(i, ws) ==
    IF ws[2] = "present" /\ ~(i < 2)
    THEN <<Number(IF ws[1] = "var" THEN 9 ELSE i)>>
    ELSE <<Number(i)>> \o (IF i >= 2 THEN <<>> ELSE ForPrints(i + 1, ws))

\* C19: a for statement parses with every combination of present and absent
\* clauses into the loop it stands for (condition `true` when absent, no
\* appended increment when absent, the bare while loop when the initializer
\* is absent), and run, the initializer acts once in a block around the loop
\* and the increment after the body on every iteration.
C19_ForClauses ==
    prog.name = "for_clauses" /\ ctl.m # "parse" =>
        /\ prog.stmts = ForProgram(prog.ws)
        /\ (Halted =>
                EndsWith(ForPrints(IF prog.ws[1] = "absent" THEN 9 ELSE 0, prog.ws)))

ClassProgram(ws, n) ==
    <<StmtClass("A", None, <<>>),
      StmtClass("B", IF ws[1] = "superclass" THEN ExprVariable(1, "A") ELSE None,
                [i \in 1..n |-> StmtFunction(IF i = 1 THEN "m1" ELSE "m2", <<>>, <<>>)]),
      StmtPrint(Str("parsed"))>>

\* C20: `class B < A { ... }` parses into a Class statement whose superclass
\* is the variable expression A, `class B { ... }` into one without a
\* superclass, and the program then runs.
C20_SuperclassClause ==
    prog.name = "class_decl" /\ ctl.m # "parse" =>
        /\ prog.stmts = ClassProgram(prog.ws, prog.n)
        /\ (Halted => EndsWith(<<String("parsed")>>))

\* the kind of each of the 16 keywords
KeywordKind(name) ==
    CASE name = "and" -> "And"       [] name = "class" -> "Class"
      [] name = "else" -> "Else"     [] name = "false" -> "False"
      [] name = "for" -> "For"       [] name = "fun" -> "Fun"
      [] name = "if" -> "If"         [] name = "nil" -> "Nil"
      [] name = "or" -> "Or"         [] name = "print" -> "Print"
      [] name = "return" -> "Return" [] name = "super" -> "Super"
      [] name = "this" -> "This"     [] name = "true" -> "True"
      [] name = "var" -> "Var"       [] name = "while" -> "While"
      [] OTHER -> "Ident"

\* C21: a word of letters, digits and underscores that does not start with a
\* digit is scanned as one token with the word as its lexeme: of the keyword's
\* kind when the word is a keyword, an Ident otherwise (a leading underscore
\* and a keyword as a prefix included).
C21_Identifiers ==
    prog.name = "word" /\ ctl.m # "scan" =>
        LET k == IF prog.n = 0 THEN 1 ELSE 2 IN
        /\ Len(prog.tokens) = (IF prog.n = 0 THEN 2 ELSE 6)
        /\ prog.tokens[k].kind = KeywordKind(prog.ws[1])
        /\ prog.tokens[k].lexeme = prog.ws[1]

\* the expression whose variable the interpreter is about to read or write,
\* with the name it looks up
AtUse == \/ ctl.m = "eval" /\ ctl.node.k \in {"Variable", "This", "Super"}
         \/ ctl.m = "value" /\ TopIs("visit_assign")
UseNode == IF ctl.m = "eval" THEN ctl.node ELSE Top.node
UseName == CASE UseNode.k = "This" -> "this"
             [] UseNode.k = "Super" -> "super"
             [] OTHER -> UseNode.name

RECURSIVE Ancestors(_)
\* the live environments on the parent chain of e, nearest first, e excluded
Ancestors(e) ==
    IF envs[e].enclosing = NoEnv \/ envs[e].enclosing \notin Alive THEN <<>>
    ELSE <<envs[e].enclosing>> \o Ancestors(envs[e].enclosing)

\* C22: when an expression with the recorded depth d is evaluated, the current
\* environment has at least d ancestors and the name is bound in the d-th.
C22_ResolvedDepth ==
    AtUse /\ UseNode.id \in DOMAIN locals =>
        LET d == locals[UseNode.id]
            chain == <<environment>> \o Ancestors(environment)
        IN  /\ Len(chain) >= d + 1
            /\ UseName \in DOMAIN envs[chain[d + 1]].values

\* the function values held by a value: the function itself, the methods of a
\* class, and for an instance its fields' functions and its class's methods
FunctionsOf(v) ==
    CASE v.t = "fun" -> {v}
      [] v.t = "class" -> {v.methods[m] : m \in DOMAIN v.methods}
      [] v.t = "inst" ->
            {f \in {insts[v.ref].fields[n] : n \in DOMAIN insts[v.ref].fields} : f.t = "fun"}
            \cup {insts[v.ref].class.methods[m] : m \in DOMAIN insts[v.ref].class.methods}
      [] OTHER -> {}

\* the function values reachable from a variable of a live environment, a
\* field, a class or a call frame
ReachableFunctions ==
    UNION {FunctionsOf(envs[e].values[n]) : <<e, n>> \in
              {<<e, n>> \in Alive \X UNION {DOMAIN envs[e].values : e \in Alive} :
                  n \in DOMAIN envs[e].values}}
    \cup {stack[i].function : i \in {i \in DOMAIN stack : stack[i].k = "LoxFunction_call"}}

RECURSIVE ChainAlive(_)
\* e and every environment on its parent chain up to globals is alive
ChainAlive(e) ==
    /\ e \in Alive
    /\ e = globals \/ (envs[e].enclosing # NoEnv /\ ChainAlive(envs[e].enclosing))

\* C23: the closure environment of every reachable function value, and its
\* parent chain up to globals, is alive.
C23_ClosuresAlive == \A f \in ReachableFunctions : ChainAlive(f.closure)

RECURSIVE CurrentOf(_)
\* the environment of the innermost block or call body among the frames st:
\* the one that was current when the statement on top of st started
CurrentOf(st) ==
    IF st = <<>> THEN globals
    ELSE IF st[Len(st)].k = "execute_block" THEN st[Len(st)].env
    ELSE CurrentOf(SubSeq(st, 1, Len(st) - 1))

\* C24: the current environment is the one of the innermost block or call
\* body in progress, and every block in progress remembers as `prev` the one
\* of the frames below it: so when a statement is done, normally, with a
\* runtime error or with a Return, the environment current before it is
\* current again, and it is globals when interpret has returned.
C24_EnvironmentRestored ==
    /\ ~(Halted /\ ctl.res = "panic") => environment = CurrentOf(stack)
    /\ \A i \in DOMAIN stack :
          stack[i].k = "execute_block" =>
              stack[i].prev = CurrentOf(SubSeq(stack, 1, i - 1))
    /\ Halted /\ ctl.res \in {"ok", "RuntimeError"} => environment = globals

\* a Return, or a runtime error, has unwound the body of a call of a function
\* that was called inside a block
C24_Witness ==
    /\ ctl.m = "err"
    /\ TopIs("LoxFunction_call")
    /\ \E i \in DOMAIN stack : stack[i].k = "execute_block"
    /\ environment = CurrentOf(stack)
    /\ environment # globals

\* the first malformed statement of a text, "none" when there is none
FirstMalformed(ws) ==
    LET bad == SelectSeq(ws, Malformed) IN IF bad = <<>> THEN "none" ELSE bad[1]

\* the cursor p is at a statement boundary of the tokens ts: the token before
\* it is `;`, or the token at it is a statement-starting keyword or EOF
AtBoundary(ts, p) ==
    \/ p > 1 /\ ts[p - 1].kind = "Semicolon"
    \/ ts[p].kind \in {"Class", "Fun", "Var", "For", "If", "While", "Print", "Return",
                       "EOF"}

\* C25: when the parse of a var, class or fun declaration has failed and
\* synchronize has run, the cursor is at a statement boundary.
C25_Synchronize ==
    /\ prog.name = "statements"
    /\ FirstMalformed(prog.ws) \notin {"none", "print_noexpr"}
    /\ Halted
    => /\ ctl.res = "ParserError"
       /\ AtBoundary(prog.tokens, ctl.position)

\* the expression a right-hand side stands for, None when it is itself an
\* assignment to something that is no target
AssignedValue(value) ==
    CASE value = "number" -> Num(2)
      [] value = "assign" -> ExprAssign(3, "c", Num(2))
      [] value = "set" -> ExprSet(ExprVariable(3, "o"), "h", Num(2))
      [] value = "literal_assign" -> None

\* the expression `<target> = r` stands for, None when the target is none
Assigned(target, r) ==
    CASE target = "variable" -> ExprAssign(1, "a", r)
      [] target = "get" -> ExprSet(ExprVariable(1, "o"), "f", r)
      [] target = "get_call" -> ExprSet(ExprCall(ExprVariable(1, "g"), <<>>), "f", r)
      [] OTHER -> None

\* C26: `l = r;` parses into Assign when l is a variable and into Set with the
\* Get's object and name when l is a Get, r being parsed as an assignment
\* itself; with any other l the parse fails with InvalidAssignmentTarget at
\* the `=` after l (at the inner `=` when r is itself such an assignment).
C26_AssignmentTargets ==
    prog.name = "assign" /\ ctl.m # "parse" =>
        LET r == AssignedValue(prog.ws[2])
            e == Assigned(prog.ws[1], r)
        IN  IF r # None /\ e # None
            THEN prog.stmts = <<StmtExpression(e)>>
            ELSE /\ Halted
                 /\ ctl.res = "ParserError"
                 /\ ctl.err = Err("InvalidAssignmentTarget",
                                  EqualToken(IF r = None THEN 2 ELSE 1))

\* a Set whose value is an assignment has been parsed
C26_Witness ==
    /\ prog.name = "assign"
    /\ prog.ws = <<"get", "assign">>
    /\ prog.stmts = <<StmtExpression(ExprSet(ExprVariable(1, "o"), "f",
                                             ExprAssign(3, "c", Num(2))))>>

\* the environments on the parent chain of the receiver that bind the name,
\* as places in the chain (1 is the receiver)
Binding(chain, name) == {i \in DOMAIN chain : name \in DOMAIN envs[chain[i]].values}

\* C27: assign writes the value into the nearest environment of the
\* receiver's parent chain that binds the name and leaves every other binding
\* as it was; when none binds it, the result is UndefinedVariable and nothing
\* has changed: no binding is created.
C27_Assign ==
    [][ctl.m = "assign" =>
        LET chain == <<ctl.e>> \o Ancestors(ctl.e)
            binding == Binding(chain, ctl.name)
            nearest == chain[CHOOSE i \in binding : \A j \in binding : i <= j]
        IN  /\ DOMAIN envs' = DOMAIN envs
            /\ \A e \in DOMAIN envs :
                  /\ envs'[e].enclosing = envs[e].enclosing
                  /\ DOMAIN envs'[e].values = DOMAIN envs[e].values
                  /\ \A n \in DOMAIN envs[e].values :
                        envs'[e].values[n] =
                            IF binding # {} /\ e = nearest /\ n = ctl.name
                            THEN ctl.value
                            ELSE envs[e].values[n]
            /\ ctl'.m = IF binding # {} THEN "Ok" ELSE "UndefinedVariable"]_vars

\* the value has been written into an ancestor of the receiver, past a nearer
\* environment that does not bind the name
C27_Witness ==
    /\ ctl.m = "Ok"
    /\ ctl.name \notin DOMAIN envs[ctl.e].values
    /\ \E e \in 1..ctl.e - 1 :
          /\ ctl.name \in DOMAIN envs[e].values
          /\ envs[e].values[ctl.name] = ctl.value
          /\ \E f \in 1..e - 1 : ctl.name \in DOMAIN envs[f].values

\* C28: the parse of a token list that ends with EOF returns: the process is
\* never left inside the loop of synchronize with a cursor that does not move.
C28_ParseTerminates == ctl.m # "synchronize"

\* the runtime error of the n-th failing statement
FailingError(n) ==
    CASE n = 1 -> "NumberOperand"
      [] n = 2 -> "UndefinedVariable"
      [] n = 3 -> "NotCallable"

\* C29: a runtime error raised in the body of init ends the run as that very
\* error: the class call yields no instance and nothing after it is run.
C29_InitError ==
    prog.name = "init_error" /\ Halted =>
        /\ ctl.res = "RuntimeError"
        /\ ctl.err.kind = FailingError(prog.n)
        /\ out = <<>>

\* some live environment binds the name to a class
BoundToClass(name) ==
    \E e \in Alive : /\ name \in DOMAIN envs[e].values
                     /\ envs[e].values[name].t = "class"

====
